---- MODULE Spec2Model ----
(***************************************************************************)
(* The ASL learning platform: the sign-classifier inference path, served   *)
(* by the local inference server (backend/training/inference_server.py)    *)
(* and by the SageMaker handler (sagemaker-deploy/inference.py); the       *)
(* hand-tracking stream (backend/routes/hand_tracking.py); and the backend *)
(* API (backend/main.py, backend/routes, backend/database).  Each of them  *)
(* is a process of its own, and a run follows one process.                 *)
(*                                                                         *)
(* Conventions.  Python lists and dicts keyed 0..n-1 are functions with    *)
(* domain 0..n-1, so indices are the source's indices.  A float is an      *)
(* integer; a probability is a numerator over the common denominator of    *)
(* its distribution (the sum of the exponentials), kept as [num, den].     *)
(* A float32 above Float32Max is inf, and a NaN probability is 0 over 0.   *)
(***************************************************************************)
EXTENDS Integers, Sequences, FiniteSets, TLC

VARIABLES
    process,        \* the deployment the run follows: "inference_server" | "sagemaker" |
                    \* "inference_server_reload" (a server whose model is loaded again)
    phase,          \* inference server: "starting" | "serving" | "failed"
    model,          \* inference_server.py global `model`
    labels,         \* inference_server.py global `labels`
    device,         \* inference_server.py global `device`
    numpy_ragged,   \* what np.array does with a ragged list in this build
    json_nan,       \* what FastAPI's serialisation does with a NaN in this build
    session,        \* inference.py global `session`
    sm_labels,      \* inference.py global `labels`
    call,           \* the last request handled: service, landmarks, response, steps
    pinned,         \* an earlier call kept for comparison with later ones
    import_errors,  \* the modules whose import raises in this installation
    hands_instance, \* hand_tracking.py global `_hands_instance`
    connections,    \* the WebSocket connections of /ws/process-stream
    routes_available, \* main.py global `routes_available`
    supabase,       \* database/supabase.py global `supabase`
    SessionLocal,   \* database/supabase.py global `SessionLocal`
    db,             \* the tables of the database behind SessionLocal
    environ,        \* backend: the environment variables of the process
    modules,        \* backend: the modules imported so far (sys.modules)
    inflight        \* backend: the POST /api/progress call of each client and its answer

vars == <<process, phase, model, labels, device, numpy_ragged, json_nan, session, sm_labels, call, pinned,
          import_errors, hands_instance, connections, routes_available, supabase,
          SessionLocal, db, environ, modules, inflight>>

(*************************** program constants *****************************)

NumLandmarks == 21
NumCoords == 3
NumFeatures == 63

(******************************* bounds ************************************)

\* coordinates are drawn from 0..CoordMod-1
CoordMod == 5
\* number of value patterns of the generated landmark sets (seed 0 is all-zero)
MaxSeed == 2
\* fixed-point scale of the exponential: exp(d) is 2^(ExpScale+d), 0 below -ExpScale
ExpScale == 8
\* the largest finite float32 on the model's integer scale
Float32Max == 100
\* messages the clients of the stream send in a run, all connections together
MaxFrames == 2
\* practice sessions recorded in a run of the backend
MaxSessions == 3
\* POST /api/progress calls in a run of the backend
MaxPosts == 2
\* commits to user_settings in a run of the backend
MaxWrites == 2
\* lessons created in a run of the backend
MaxLessons == 1
\* classes of the probability vectors the two selections are compared on
MaxClasses == 3
\* largest numerator of a probability in those vectors
MaxWeight == 2

(******************************* helpers ***********************************)

None == [tag |-> "None"]

Len0(f) == Cardinality(DOMAIN f)

\* a Python list literal as a function on 0..n-1
ZeroBased(seq) == [i \in 0..(Len(seq) - 1) |-> seq[i + 1]]

RECURSIVE Pow2(_)
Pow2(n) == IF n <= 0 THEN 1 ELSE 2 * Pow2(n - 1)

RECURSIVE SumTo(_, _)
SumTo(f, n) == IF n < 0 THEN 0 ELSE f[n] + SumTo(f, n - 1)

\* the labels present in a label dict, in index order
Keys(idx_to_label) == {idx_to_label[i] : i \in DOMAIN idx_to_label}

(***************************** request inputs ******************************)

\* coordinate k of point i in value pattern `seed`; pattern 0 is all zeros and
\* the others differ between rows and between columns
Coord(seed, i, k) == (seed * (2 * i + k + 1)) % CoordMod

Point(seed, i, len) == [k \in 0..(len - 1) |-> Coord(seed, i, k)]

\* n points of 3 coordinates each
WellFormed(n, seed) == [i \in 0..(n - 1) |-> Point(seed, i, NumCoords)]

\* 21 points, point `bad` having `len` coordinates
OneBad(seed, bad, len) ==
    [i \in 0..(NumLandmarks - 1) |-> Point(seed, i, IF i = bad THEN len ELSE NumCoords)]

\* 21 points of `len` coordinates each
Uniform(seed, len) == [i \in 0..(NumLandmarks - 1) |-> Point(seed, i, len)]

\* 21 points, 63 coordinates in all, the first point short and the last long
TwoBad(seed) ==
    [i \in 0..(NumLandmarks - 1) |->
        Point(seed, i, IF i = 0 THEN NumCoords - 1
                       ELSE IF i = NumLandmarks - 1 THEN NumCoords + 1 ELSE NumCoords)]

\* a coordinate that is a finite double and no finite float32 (1e39)
Huge == 2 * Float32Max

\* 21 triples, the first coordinate of the first point beyond float32
Overflowing ==
    [i \in 0..(NumLandmarks - 1) |->
        [k \in 0..(NumCoords - 1) |-> IF i = 0 /\ k = 0 THEN Huge ELSE Coord(1, i, k)]]

Counts == {0, 1, NumLandmarks - 1, NumLandmarks, NumLandmarks + 1}

ValidLandmarks == {WellFormed(NumLandmarks, s) : s \in 0..MaxSeed}

LandmarkSets ==
    {WellFormed(n, s) : n \in Counts, s \in 0..MaxSeed}
    \cup {OneBad(1, b, l) : b \in {0, NumLandmarks - 1}, l \in {0, NumCoords - 1, NumCoords + 1}}
    \cup {Uniform(1, l) : l \in {NumCoords - 1, NumCoords + 1}}
    \cup {TwoBad(1)}
    \cup {Overflowing}

\* all points have the same number of coordinates
Homogeneous(lm) == \A i, j \in DOMAIN lm : Len0(lm[i]) = Len0(lm[j])

(************************** exceptions and results *************************)

Return(v) == [raised |-> FALSE, value |-> v]
Raise(e) == [raised |-> TRUE, exc |-> e]

HTTPException(status_code, detail) ==
    [type |-> "HTTPException", status_code |-> status_code, detail |-> detail]
\* a message with no number in it
Msg(text) == [text |-> text]

ValueError(msg) == [type |-> "ValueError", msg |-> msg]
RuntimeError(msg) == [type |-> "RuntimeError", msg |-> msg]
KeyError(msg) == [type |-> "KeyError", msg |-> msg]
TypeError(msg) == [type |-> "TypeError", msg |-> msg]
IndexError(msg) == [type |-> "IndexError", msg |-> msg]
AttributeError(msg) == [type |-> "AttributeError", msg |-> msg]
\* json.JSONDecodeError, a subclass of ValueError
JSONDecodeError(msg) == [type |-> "JSONDecodeError", msg |-> msg]

\* str(e): Starlette renders an HTTPException as "<status_code>: <detail>",
\* the built-in exceptions as their message
Str(e) == IF e.type = "HTTPException"
          THEN [text |-> "status: detail", status_code |-> e.status_code, detail |-> e.detail]
          ELSE e.msg

\* f"Expected 21 landmarks, got {n}"
MsgLandmarks(n) == [text |-> "Expected landmarks", expected |-> NumLandmarks, got |-> n]
\* f"Expected 63 features ..., got {n}"
MsgFeatures(n) == [text |-> "Expected features", expected |-> NumFeatures, got |-> n]
\* f"Each landmark must have 3 coordinates (x, y, z), got {n}"
MsgCoords(n) == [text |-> "Each landmark must have coordinates", expected |-> NumCoords, got |-> n]

(******************************* validation ********************************)

\* len(landmarks) != 21 fails the request
CountOk(landmarks) == Len0(landmarks) = NumLandmarks

\* the feature check written as a lower bound
FeatureCountOk_AtLeast(flat) == Len0(flat) >= NumFeatures

\* len(landmarks_flat) != 63 fails the request
FeatureCountOk(flat) == Len0(flat) = NumFeatures

(******************************* flattening ********************************)

\* flattening in column-major (Fortran) order
NpArrayFlatten_ColumnMajor(landmarks, ragged) ==
    LET n == Len0(landmarks) IN
    IF n = 0 THEN Return(<<>>)
    ELSE IF Homogeneous(landmarks)
    THEN LET m == Len0(landmarks[0]) IN
         Return([j \in 0..(n * m - 1) |-> landmarks[j % n][j \div n]])
    ELSE IF ragged = "raise"
    THEN Raise(ValueError(Msg("inhomogeneous shape")))
    ELSE Return([i \in 0..(n - 1) |-> landmarks[i]])

\* np.array(landmarks).flatten(): row-major over a rectangular list; a ragged
\* list raises ValueError (numpy >= 1.24) or becomes a 1-D array of the n
\* points as objects (older numpy), according to the build
NpArrayFlatten(landmarks, ragged) ==
    LET n == Len0(landmarks) IN
    IF n = 0 THEN Return(<<>>)
    ELSE IF Homogeneous(landmarks)
    THEN LET m == Len0(landmarks[0]) IN
         Return([j \in 0..(n * m - 1) |-> landmarks[j \div m][j % m]])
    ELSE IF ragged = "raise"
    THEN Raise(ValueError(Msg("inhomogeneous shape")))
    ELSE Return([i \in 0..(n - 1) |-> landmarks[i]])

\* flat.extend(lm): lm appended after the elements flat already holds
Extend(flat, lm) ==
    LET a == Len0(flat) b == Len0(lm) IN
    [j \in 0..(a + b - 1) |-> IF j < a THEN flat[j] ELSE lm[j - a]]

\* the loop of predict_fn over the points from index i on: each point checked
\* for 3 coordinates, then appended
RECURSIVE FlattenLoop(_, _, _)
FlattenLoop(landmarks, i, flat_landmarks) ==
    IF i >= Len0(landmarks) THEN Return(flat_landmarks)
    ELSE IF Len0(landmarks[i]) # NumCoords
    THEN Raise(ValueError(MsgCoords(Len0(landmarks[i]))))
    ELSE FlattenLoop(landmarks, i + 1, Extend(flat_landmarks, landmarks[i]))

(******************************* the classifier ****************************)

\* the network's weights are one affine layer: class c reads feature col[c]
\* and adds bias[c]
Affine(weights, x) == [c \in DOMAIN weights.bias |-> x[weights.col[c]] + weights.bias[c]]

\* model(input): the set of outcomes a forward pass can have.  In eval mode
\* it is a function of the weights and the input.  In training mode the MLP's
\* BatchNorm1d rejects a batch of one, and the LSTM's dropout either keeps or
\* drops the activations that carry the input.
Forward(m, x) ==
    IF ~m.training THEN {Return(Affine(m.weights, x))}
    ELSE IF m.model_type = "mlp"
    THEN {Raise(ValueError(Msg("Expected more than 1 value per channel when training")))}
    ELSE {Return(Affine(m.weights, x)), Return(m.weights.bias)}

\* a double stored as float32: a value beyond the float32 range becomes inf,
\* which is every value above Float32Max
Float32(v) == IF v > Float32Max THEN Float32Max + 1 ELSE v

\* torch.FloatTensor(flat) / np.array(flat, dtype=np.float32)
AsFloat32(flat) == [j \in DOMAIN flat |-> Float32(flat[j])]

\* math.isinf / isnan of a logit
IsFinite(v) == v <= Float32Max

Max0(f) == CHOOSE v \in {f[i] : i \in DOMAIN f} : \A i \in DOMAIN f : f[i] <= v

\* exp(d) for d <= 0 in fixed point: 2^(ExpScale + d), and 0 once it underflows
Exp(d) == IF d < -ExpScale THEN 0 ELSE Pow2(ExpScale + d)

\* softmax: exponentials of (logit - max logit), each over their sum.  With an
\* inf logit the maximum is inf, inf - inf is NaN, the sum is NaN and every
\* probability is NaN: 0 over 0
Softmax(logits) ==
    IF \E i \in DOMAIN logits : ~IsFinite(logits[i])
    THEN [num |-> [i \in DOMAIN logits |-> 0], den |-> 0]
    ELSE
    LET max_logit == Max0(logits)
        exp_scores == [i \in DOMAIN logits |-> Exp(logits[i] - max_logit)]
    IN  [num |-> exp_scores, den |-> SumTo(exp_scores, Len0(logits) - 1)]

Prob(probabilities, i) == [num |-> probabilities.num[i], den |-> probabilities.den]

(************************ label restriction and selection ******************)

\* set('ABCDEFGHIJKLMNOPQRSTUVWXYZ') / list('ABC...Z'): the 26 one-letter strings
alphabet_letters ==
    {"A", "B", "C", "D", "E", "F", "G", "H", "I", "J", "K", "L", "M",
     "N", "O", "P", "Q", "R", "S", "T", "U", "V", "W", "X", "Y", "Z"}

\* the scan's test without the letter restriction
Better_AnyLabel(label, prob, best_prob) == prob > best_prob

\* the scan's test with >= in place of >
Better_OrEqual(label, prob, best_prob) == label \in alphabet_letters /\ prob >= best_prob

\* the condition under which the scan replaces its best letter by class i
Better(label, prob, best_prob) == label \in alphabet_letters /\ prob > best_prob

\* the scan over class indices i, i+1, ..., n-1 with the best letter so far;
\* label[i] is the label of class i and num[i] its probability.  The scan
\* starts from -1.0, which is -den over den: no NaN (0 over 0) is above it,
\* as no comparison with a NaN holds
RECURSIVE ScanLetters(_, _, _, _, _, _)
ScanLetters(label, num, n, i, best_idx, best_prob) ==
    IF i >= n THEN [idx |-> best_idx, prob |-> best_prob]
    ELSE IF Better(label[i], num[i], best_prob)
    THEN ScanLetters(label, num, n, i + 1, i, num[i])
    ELSE ScanLetters(label, num, n, i + 1, best_idx, best_prob)

\* an arg-max that keeps the last index holding the maximum
ArgMax_Last(num) == CHOOSE i \in DOMAIN num :
                        /\ \A j \in DOMAIN num : num[j] <= num[i]
                        /\ \A j \in DOMAIN num : j > i => num[j] < num[i]

\* probabilities.max(1) / np.argmax(probabilities): the first index holding the maximum
ArgMax(num) == CHOOSE i \in DOMAIN num :
                   /\ \A j \in DOMAIN num : num[j] <= num[i]
                   /\ \A j \in DOMAIN num : j < i => num[j] < num[i]

\* a map filter that only drops the two non-letter tokens the comment names
InMap_ExcludeDelSpace(label) == label \notin {"del", "space"}

\* the test that admits class label `label` into the probabilities map
InMap(label) == label \in alphabet_letters

\* a map whose values are renormalised over the admitted classes
LetterMap_Renormalised(label, n, probabilities) ==
    LET idxs == {i \in 0..(n - 1) : InMap(label[i])}
        letters == [i \in 0..(n - 1) |-> IF i \in idxs THEN probabilities.num[i] ELSE 0]
        last(l) == CHOOSE i \in idxs : label[i] = l /\ \A j \in idxs : label[j] = l => j <= i
    IN  [l \in {label[i] : i \in idxs} |->
            [num |-> probabilities.num[last(l)], den |-> SumTo(letters, n - 1)]]

\* a dict built by inserting (label[i], probability of i) for the admitted
\* classes i of 0..n-1 in index order: a later insertion replaces an earlier
\* one for the same key
LetterMap(label, n, probabilities) ==
    LET idxs == {i \in 0..(n - 1) : InMap(label[i])}
        last(l) == CHOOSE i \in idxs : label[i] = l /\ \A j \in idxs : label[j] = l => j <= i
    IN  [l \in {label[i] : i \in idxs} |-> Prob(probabilities, last(l))]

\* inference_server.predict from the softmax output on: restricted selection,
\* fallback, and the probabilities map
LocalSelect(probabilities, lb) ==
    LET idx_to_label == lb.idx_to_label
        n == Len0(idx_to_label)
    IN  \* probs_np[i] is read only for a class whose label is a letter
        IF \E i \in 0..(n - 1) : /\ idx_to_label[i] \in alphabet_letters
                                  /\ i \notin DOMAIN probabilities.num
        THEN Raise(IndexError(Msg("index out of bounds")))
        ELSE
        LET scan == ScanLetters(idx_to_label, probabilities.num, n, 0, -1, -probabilities.den)
            all_probs == LetterMap(idx_to_label, n, probabilities)
        IN  IF scan.idx = -1
            THEN LET predicted_idx == ArgMax(probabilities.num) IN
                 IF predicted_idx \notin DOMAIN idx_to_label
                 THEN Raise(KeyError(Msg("idx_to_label")))
                 ELSE Return([sign |-> idx_to_label[predicted_idx],
                              confidence |-> Prob(probabilities, predicted_idx),
                              probabilities |-> all_probs])
            ELSE Return([sign |-> idx_to_label[scan.idx],
                         confidence |-> [num |-> scan.prob, den |-> probabilities.den],
                         probabilities |-> all_probs])

\* str(i) for a class index
StrOf(i) == <<"0", "1", "2", "3", "4", "5", "6", "7", "8", "9">>[i + 1]

\* a selection whose fallback takes the last of the largest probabilities
SmSelect_FallbackLast(probabilities, lb) ==
    LET idx_to_label == lb.idx_to_label
        n == Len0(probabilities.num)
    IN  IF \E i \in 0..(n - 1) : StrOf(i) \notin DOMAIN idx_to_label
        THEN Raise(KeyError(Msg("idx_to_label")))
        ELSE
        LET label == [i \in 0..(n - 1) |-> idx_to_label[StrOf(i)]]
            scan == ScanLetters(label, probabilities.num, n, 0, -1, -probabilities.den)
            best_idx == IF scan.idx = -1 THEN ArgMax_Last(probabilities.num) ELSE scan.idx
            prob_map == LetterMap(label, n, probabilities)
        IN  Return([sign |-> label[best_idx],
                    confidence |-> Prob(probabilities, best_idx),
                    probabilities |-> prob_map])

\* inference.predict_fn from the softmax output on; idx_to_label is keyed by str(i)
SmSelect(probabilities, lb) ==
    LET idx_to_label == lb.idx_to_label
        n == Len0(probabilities.num)
    IN  IF \E i \in 0..(n - 1) : StrOf(i) \notin DOMAIN idx_to_label
        THEN Raise(KeyError(Msg("idx_to_label")))
        ELSE
        LET label == [i \in 0..(n - 1) |-> idx_to_label[StrOf(i)]]
            scan == ScanLetters(label, probabilities.num, n, 0, -1, -probabilities.den)
            best_idx == IF scan.idx = -1 THEN ArgMax(probabilities.num) ELSE scan.idx
            prob_map == LetterMap(label, n, probabilities)
        IN  Return([sign |-> label[best_idx],
                    confidence |-> Prob(probabilities, best_idx),
                    probabilities |-> prob_map])

(**************************** checkpoint files *****************************)

LabelToIdx(idx_to_label) ==
    [l \in Keys(idx_to_label) |-> CHOOSE i \in DOMAIN idx_to_label : idx_to_label[i] = l]

AllKeys == {"model_type", "num_classes", "model_state_dict", "idx_to_label", "label_to_idx"}

\* the file train.py saves: the keys inference reads
Ckpt(model_type, label_seq, col_seq, bias_seq) ==
    [corrupt |-> FALSE,
     keys |-> AllKeys,
     model_type |-> model_type,
     num_classes |-> Len(label_seq),
     model_state_dict |-> [arch |-> model_type,
                           col |-> ZeroBased(col_seq),
                           bias |-> ZeroBased(bias_seq)],
     idx_to_label |-> ZeroBased(label_seq),
     label_to_idx |-> LabelToIdx(ZeroBased(label_seq))]

\* a non-letter class usually on top of two letters
CkSpace == Ckpt("mlp", <<"A", "space", "B">>, <<0, 1, 2>>, <<0, 3, 1>>)
\* letters only, the first two always tied
CkTie == Ckpt("lstm", <<"A", "B", "C">>, <<0, 0, 5>>, <<1, 1, 0>>)
\* no letter at all
CkNoLetter == Ckpt("mlp", <<"space", "del">>, <<0, 4>>, <<1, 1>>)
\* letters out of alphabetical order among labels that only look like letters
CkMixed == Ckpt("lstm", <<"del", "B", "a", "A", "AB">>, <<3, 7, 1, 7, 2>>, <<2, 0, 1, 0, 3>>)
\* a non-letter class so far below the letter that its exponential underflows
CkFar == Ckpt("mlp", <<"A", "space">>, <<0, 1>>, <<CoordMod + ExpScale + 1, 0>>)

GoodCheckpoints == {CkSpace, CkTie, CkNoLetter, CkMixed, CkFar}

\* files load_model cannot load to the end
CkCorrupt == [corrupt |-> TRUE]
CkUnknownType == [CkSpace EXCEPT !.model_type = "cnn"]
CkWrongShape == [CkSpace EXCEPT !.model_state_dict = CkNoLetter.model_state_dict]
CkNoLabels == [CkTie EXCEPT !.keys = AllKeys \ {"idx_to_label"}]

BadCheckpoints == {CkCorrupt, CkUnknownType, CkWrongShape, CkNoLabels}

CheckpointFiles == GoodCheckpoints \cup BadCheckpoints

Devices == {"cuda", "mps", "cpu"}

(******************************* model.py **********************************)

\* the freshly initialised weights a new module can have
InitWeights(model_type, num_classes) ==
    {[arch |-> model_type,
      col |-> [c \in 0..(num_classes - 1) |-> 0],
      bias |-> [c \in 0..(num_classes - 1) |-> b]] : b \in {0, 1}}

\* create_model: a new module, in training mode, with fresh weights
create_model(model_type, num_classes) ==
    IF model_type \in {"mlp", "lstm"}
    THEN {Return([model_type |-> model_type, num_classes |-> num_classes,
                  weights |-> w, training |-> TRUE]) :
            w \in InitWeights(model_type, num_classes)}
    ELSE {Raise(ValueError(Msg("Unknown model type")))}

\* model.load_state_dict(state_dict): strict, the shapes must match
load_state_dict(m, state_dict) ==
    IF state_dict.arch = m.model_type /\ Len0(state_dict.bias) = m.num_classes
    THEN Return([m EXCEPT !.weights = state_dict])
    ELSE Raise(RuntimeError(Msg("Error(s) in loading state_dict")))

\* eval() left out: the module stays in training mode
eval_Skipped(m) == m

\* model.eval()
eval(m) == [m EXCEPT !.training = FALSE]

(************************** inference_server.py ****************************)

Globals(m, lb, dev, exc) == [model |-> m, labels |-> lb, device |-> dev, raised |-> exc]

\* load_model(model_path) with the globals g, the file at model_path and the
\* device torch offers: the globals it leaves and the exception it ends with
load_model(g, file, dev) ==
    IF file.corrupt
    THEN {Globals(g.model, g.labels, dev, RuntimeError(Msg("torch.load")))}
    ELSE IF ~({"model_type", "num_classes"} \subseteq file.keys)
    THEN {Globals(g.model, g.labels, dev, KeyError(Msg("model_type")))}
    ELSE
    {IF created.raised
     THEN Globals(g.model, g.labels, dev, created.exc)
     ELSE IF "model_state_dict" \notin file.keys
     THEN Globals(created.value, g.labels, dev, KeyError(Msg("model_state_dict")))
     ELSE LET loaded == load_state_dict(created.value, file.model_state_dict) IN
          IF loaded.raised
          THEN Globals(created.value, g.labels, dev, loaded.exc)
          ELSE IF ~({"idx_to_label", "label_to_idx"} \subseteq file.keys)
          THEN Globals(eval(loaded.value), g.labels, dev, KeyError(Msg("idx_to_label")))
          ELSE Globals(eval(loaded.value),
                       [idx_to_label |-> file.idx_to_label,
                        label_to_idx |-> file.label_to_idx,
                        num_classes |-> file.num_classes],
                       dev, None)
     : created \in create_model(file.model_type, file.num_classes)}

\* what a handler run is observed to do: what it returned or raised (res), the
\* steps it took, the result of its flattening (flat) and the distribution its
\* softmax produced (dist), None for a stage it did not reach
Outcome(res, steps, flat, dist) == [res |-> res, steps |-> steps, flat |-> flat, dist |-> dist]

\* the body of predict's try block
PredictTry(m, lb, landmarks, ragged) ==
    IF ~CountOk(landmarks)
    THEN {Outcome(Raise(HTTPException(400, MsgLandmarks(Len0(landmarks)))),
                  <<"check_count">>, None, None)}
    ELSE
    LET flat == NpArrayFlatten(landmarks, ragged) IN
    IF flat.raised
    THEN {Outcome(flat, <<"check_count", "flatten">>, flat, None)}
    ELSE IF ~FeatureCountOk(flat.value)
    THEN {Outcome(Raise(HTTPException(400, MsgFeatures(Len0(flat.value)))),
                  <<"check_count", "flatten", "check_features">>, flat, None)}
    ELSE
    {IF output.raised
     THEN Outcome(output, <<"check_count", "flatten", "check_features", "score">>, flat, None)
     ELSE LET probabilities == Softmax(output.value) IN
          IF lb = None
          THEN Outcome(Raise(TypeError(Msg("'NoneType' object is not subscriptable"))),
                       <<"check_count", "flatten", "check_features", "score", "select">>,
                       flat, probabilities)
          ELSE LET selected == LocalSelect(probabilities, lb) IN
               Outcome(selected,
                       IF selected.raised
                       THEN <<"check_count", "flatten", "check_features", "score", "select">>
                       ELSE <<"check_count", "flatten", "check_features", "score", "select",
                              "format">>,
                       flat, probabilities)
     : output \in Forward(m, AsFloat32(flat.value))}

\* except Exception as e: raise HTTPException(status_code=500, detail=str(e))
ExceptException(o) ==
    IF o.res.raised
    THEN Outcome(Raise(HTTPException(500, Str(o.res.exc))), o.steps, o.flat, o.dist)
    ELSE o

\* the model check made inside the try block
predict_CheckInTry(m, lb, landmarks, ragged) ==
    IF m = None
    THEN {ExceptException(Outcome(Raise(HTTPException(503, Msg("Model not loaded"))),
                                  <<>>, None, None))}
    ELSE {ExceptException(o) : o \in PredictTry(m, lb, landmarks, ragged)}

\* POST /predict
predict(m, lb, landmarks, ragged) ==
    IF m = None
    THEN {Outcome(Raise(HTTPException(503, Msg("Model not loaded"))), <<>>, None, None)}
    ELSE {ExceptException(o) : o \in PredictTry(m, lb, landmarks, ragged)}

\* GET /labels
get_labels(lb) ==
    IF lb = None THEN Raise(HTTPException(503, Msg("Model not loaded"))) ELSE Return(lb)

\* GET /
root(m, lb) ==
    LET all_signs == IF lb # None THEN DOMAIN lb.label_to_idx ELSE {} IN
    Return([status |-> "running",
            model_loaded |-> (m # None),
            signs |-> {x \in all_signs : x \in alphabet_letters}])

\* json.dumps(content, allow_nan=False) rejects a body with a NaN in it
JsonCompliant(body) ==
    "confidence" \in DOMAIN body
    => /\ body.confidence.den # 0
       /\ \A l \in DOMAIN body.probabilities : body.probabilities[l].den # 0

\* the HTTP response FastAPI sends for what a handler returned or raised.  The
\* repository pins no version of FastAPI and pydantic: for a returned body
\* with a NaN in it, a build either hands the NaN to
\* json.dumps(allow_nan=False), whose ValueError is unhandled (nan "raise"),
\* or turns every NaN into the JSON null before that and answers 200 (nan
\* "null")
HttpResponse(res, nan) ==
    LET JsonNull == [num |-> 0, den |-> 0, json |-> "null"]
        NullNaN(p) == IF p.den = 0 THEN JsonNull ELSE p
    IN  IF res.raised
        THEN [status_code |-> res.exc.status_code, detail |-> res.exc.detail]
        ELSE IF JsonCompliant(res.value)
        THEN [status_code |-> 200, body |-> res.value]
        ELSE IF nan = "raise"
        THEN [status_code |-> 500, detail |-> Msg("Internal Server Error")]
        ELSE [status_code |-> 200,
              body |-> [res.value EXCEPT
                          !.confidence = NullNaN(@),
                          !.probabilities = [l \in DOMAIN @ |-> NullNaN(@[l])]]]

(************************* sagemaker-deploy/inference.py *******************)

\* export: labels.json holds idx_to_label keyed by str(index)
ExportLabels(checkpoint) ==
    [idx_to_label |-> [key \in {StrOf(i) : i \in DOMAIN checkpoint.idx_to_label} |->
                          checkpoint.idx_to_label[CHOOSE i \in DOMAIN checkpoint.idx_to_label :
                                                      StrOf(i) = key]],
     label_to_idx |-> checkpoint.label_to_idx,
     num_classes |-> checkpoint.num_classes,
     model_type |-> checkpoint.model_type]

\* the ONNX session of an exported checkpoint (exported in eval mode)
Session(checkpoint) == [tag |-> "session", weights |-> checkpoint.model_state_dict]

\* parsed JSON bodies
JDict(landmarks) == [type |-> "dict", keys |-> {"landmarks"}, landmarks |-> landmarks]
JList(landmarks) == [type |-> "list", items |-> landmarks]
JEmptyDict == [type |-> "dict", keys |-> {}]
JNumber == [type |-> "number"]
\* {"landmarks": null}
JDictNull == [type |-> "dict", keys |-> {"landmarks"}, null |-> {"landmarks"}]
\* a body that is not JSON
JInvalid == [type |-> "invalid"]

\* input_fn(request_body, content_type), `data` being what json.loads makes of
\* the body
input_fn(data, content_type) ==
    IF content_type = "application/json"
    THEN IF data.type = "invalid"
         THEN Raise(JSONDecodeError(Msg("Expecting value")))
         ELSE IF data.type = "dict" /\ "landmarks" \in data.keys
         THEN IF "null" \in DOMAIN data
              THEN Raise(TypeError(Msg("object of type 'NoneType' has no len()")))
              ELSE IF ~CountOk(data.landmarks)
              THEN Raise(ValueError(MsgLandmarks(Len0(data.landmarks))))
              ELSE Return(data.landmarks)
         ELSE IF data.type = "list"
         THEN IF ~CountOk(data.items)
              THEN Raise(ValueError(MsgLandmarks(Len0(data.items))))
              ELSE Return(data.items)
         ELSE Raise(ValueError(Msg("Invalid input format")))
    ELSE Raise(ValueError(Msg("Unsupported content type")))

\* predict_fn(landmarks, model) with the global labels lb
predict_fn(landmarks, sess, lb) ==
    LET flat == FlattenLoop(landmarks, 0, <<>>) IN
    IF flat.raised
    THEN Outcome(flat, <<"flatten">>, flat, None)
    ELSE IF ~FeatureCountOk(flat.value)
    THEN Outcome(Raise(ValueError(MsgFeatures(Len0(flat.value)))),
                 <<"flatten", "check_features">>, flat, None)
    ELSE LET logits == Affine(sess.weights, AsFloat32(flat.value))
             probabilities == Softmax(logits)
         IN  Outcome(SmSelect(probabilities, lb),
                     <<"flatten", "check_features", "score", "select">>, flat, probabilities)

\* output_fn(prediction, accept)
output_fn(prediction, accept) ==
    IF accept = "application/json"
    THEN Return([body |-> prediction, content_type |-> "application/json"])
    ELSE Raise(ValueError(Msg("Unsupported accept type")))

\* one invocation of the endpoint: input_fn, predict_fn, output_fn in turn, the
\* first exception ending it
Transform(request, sess, lb) ==
    LET parsed == input_fn(request.data, request.content_type) IN
    IF parsed.raised THEN Outcome(parsed, <<"check_count">>, None, None)
    ELSE LET o == predict_fn(parsed.value, sess, lb) IN
         IF o.res.raised THEN Outcome(o.res, <<"check_count">> \o o.steps, o.flat, o.dist)
         ELSE Outcome(output_fn(o.res.value, request.accept),
                      <<"check_count">> \o o.steps \o <<"format">>, o.flat, o.dist)

SmRequest(data, content_type, accept) ==
    [data |-> data, content_type |-> content_type, accept |-> accept]

SmRequests ==
    {SmRequest(JDict(lm), "application/json", "application/json") : lm \in LandmarkSets}
    \cup {SmRequest(JList(WellFormed(n, 1)), "application/json", "application/json") : n \in Counts}
    \cup {SmRequest(d, "application/json", "application/json") :
             d \in {JEmptyDict, JNumber, JDictNull, JInvalid}}
    \cup {SmRequest(JList(lm), "text/csv", "application/json") : lm \in ValidLandmarks}
    \cup {SmRequest(JList(lm), "application/json", "text/csv") : lm \in ValidLandmarks}

(*********************** sagemaker-deploy/lambda_proxy.py ******************)

\* botocore's exception for an endpoint that answers with an error or is not
\* in service
ClientError(cause) == [type |-> "ClientError", msg |-> Msg("invoke_endpoint"), cause |-> cause]

\* JSON values a request can carry under "landmarks"
JLandmarkValues ==
    {[type |-> "list", items |-> lm] :
        lm \in {WellFormed(n, 1) : n \in Counts} \cup {Overflowing, TwoBad(1)}}
    \cup {[type |-> "string", len |-> n] : n \in {0, NumLandmarks}}
    \cup {[type |-> "number", value |-> v] : v \in {0, NumLandmarks}}
    \cup {[type |-> "null"]}

\* event['body']: no such key, None, text that is no JSON, a JSON array, a JSON
\* object without and with the key "landmarks"
EventBodies ==
    {[kind |-> k] : k \in {"absent", "none", "invalid", "array"}}
    \cup {[kind |-> "object", keys |-> {}]}
    \cup {[kind |-> "object", keys |-> {"landmarks"}, landmarks |-> v] : v \in JLandmarkValues}

Events == [httpMethod : {"OPTIONS", "POST", "GET"}, body : EventBodies]

\* bool(v)
Truthy(v) ==
    IF v.type = "list" THEN Len0(v.items) > 0
    ELSE IF v.type = "string" THEN v.len > 0
    ELSE IF v.type = "number" THEN v.value # 0
    ELSE FALSE

\* len(v)
PyLen(v) ==
    IF v.type = "list" THEN Return(Len0(v.items))
    ELSE IF v.type = "string" THEN Return(v.len)
    ELSE Raise(TypeError(Msg("object has no len()")))

\* json.loads(event.get('body', '{}')) followed by body.get('landmarks');
\* the value None stands for both a missing key and a JSON null
BodyLandmarks(body) ==
    IF body.kind = "absent" THEN Return([type |-> "null"])
    ELSE IF body.kind = "none"
    THEN Raise(TypeError(Msg("the JSON object must be str, bytes or bytearray")))
    ELSE IF body.kind = "invalid" THEN Raise(JSONDecodeError(Msg("Expecting value")))
    ELSE IF body.kind = "array"
    THEN Raise(AttributeError(Msg("object has no attribute 'get'")))
    ELSE IF "landmarks" \in body.keys THEN Return(body.landmarks)
    ELSE Return([type |-> "null"])

CorsHeaders ==
    [h \in {"Access-Control-Allow-Origin", "Access-Control-Allow-Methods",
            "Access-Control-Allow-Headers"} |->
        IF h = "Access-Control-Allow-Origin" THEN "*"
        ELSE IF h = "Access-Control-Allow-Methods" THEN "POST, OPTIONS"
        ELSE "Content-Type"]

JsonHeaders ==
    [h \in {"Access-Control-Allow-Origin", "Content-Type"} |->
        IF h = "Access-Control-Allow-Origin" THEN "*" ELSE "application/json"]

\* sagemaker_runtime.invoke_endpoint with Body {'landmarks': landmarks} and the
\* parsed JSON of what the endpoint answers; a string is to the container a
\* sequence of one-character entries
invoke_endpoint(landmarks, sess, lb) ==
    IF sess = None THEN Raise(ClientError(Msg("endpoint not in service")))
    ELSE IF landmarks.type = "string" THEN Raise(ClientError(ValueError(MsgCoords(1))))
    ELSE LET o == Transform(SmRequest(JDict(landmarks.items), "application/json",
                                      "application/json"), sess, lb)
         IN  IF o.res.raised THEN Raise(ClientError(o.res.exc))
             ELSE Return(o.res.value.body)

\* the except branch of lambda_handler
LambdaError(e) ==
    [statusCode |-> 500, headers |-> JsonHeaders,
     body |-> [error |-> "Internal server error", cause |-> e]]

\* a handler that forwards every non-empty landmarks value
lambda_handler_NoCountCheck(event, sess, lb) ==
    IF event.httpMethod = "OPTIONS"
    THEN [response |-> [statusCode |-> 200, headers |-> CorsHeaders, body |-> ""],
          invoked |-> FALSE]
    ELSE LET landmarks == BodyLandmarks(event.body) IN
         IF landmarks.raised
         THEN [response |-> LambdaError(landmarks.exc), invoked |-> FALSE]
         ELSE IF ~Truthy(landmarks.value)
         THEN [response |-> [statusCode |-> 400, headers |-> JsonHeaders,
                             body |-> [error |-> Msg("Missing landmarks in request body")]],
               invoked |-> FALSE]
         ELSE IF PyLen(landmarks.value).raised
         THEN [response |-> LambdaError(PyLen(landmarks.value).exc), invoked |-> FALSE]
         ELSE LET result == invoke_endpoint(landmarks.value, sess, lb) IN
              IF result.raised
              THEN [response |-> LambdaError(result.exc), invoked |-> TRUE]
              ELSE [response |-> [statusCode |-> 200, headers |-> JsonHeaders,
                                  body |-> result.value],
                    invoked |-> TRUE]

\* lambda_handler(event, context): the response, and whether invoke_endpoint
\* was called
lambda_handler(event, sess, lb) ==
    IF event.httpMethod = "OPTIONS"
    THEN [response |-> [statusCode |-> 200, headers |-> CorsHeaders, body |-> ""],
          invoked |-> FALSE]
    ELSE LET landmarks == BodyLandmarks(event.body) IN
         IF landmarks.raised
         THEN [response |-> LambdaError(landmarks.exc), invoked |-> FALSE]
         ELSE IF ~Truthy(landmarks.value)
         THEN [response |-> [statusCode |-> 400, headers |-> JsonHeaders,
                             body |-> [error |-> Msg("Missing landmarks in request body")]],
               invoked |-> FALSE]
         ELSE IF PyLen(landmarks.value).raised
         THEN [response |-> LambdaError(PyLen(landmarks.value).exc), invoked |-> FALSE]
         ELSE IF PyLen(landmarks.value).value # NumLandmarks
         THEN [response |-> [statusCode |-> 400, headers |-> JsonHeaders,
                             body |-> [error |-> MsgLandmarks(PyLen(landmarks.value).value)]],
               invoked |-> FALSE]
         ELSE LET result == invoke_endpoint(landmarks.value, sess, lb) IN
              IF result.raised
              THEN [response |-> LambdaError(result.exc), invoked |-> TRUE]
              ELSE [response |-> [statusCode |-> 200, headers |-> JsonHeaders,
                                  body |-> result.value],
                    invoked |-> TRUE]

(************************ routes/hand_tracking.py **************************)

\* the WebSocket connections a run follows
Conns == {"c1", "c2"}

\* what a text message of a client holds: a JSON object whose image_data is
\* an image with a hand in clear view ("hand"), with a hand the detector
\* misses and the tracker can follow ("faint"), with no hand ("blank"), or
\* bytes that are no image ("not_image"); a JSON value that is no object
\* ("not_object"); text that is no JSON ("bad_json")
MessageKinds == {"hand", "faint", "blank", "not_image", "not_object", "bad_json"}

\* the image_data of a FrameInput of POST /process-frame
FrameImages == {"hand", "faint", "blank", "not_image"}


\* mp_hands.Hands(static_image_mode=False, ...): a tracker that follows a
\* hand from one processed image to the next
Hands == [tag |-> "Hands", tracking |-> FALSE]

\* get_mediapipe_hands(): the global instance, created on first use
get_mediapipe_hands(instance, errors) ==
    IF instance # None THEN [instance |-> instance, result |-> Return(instance)]
    ELSE IF "mediapipe" \in errors
    THEN [instance |-> instance,
          result |-> Raise(HTTPException(503, Msg("MediaPipe not installed")))]
    ELSE [instance |-> Hands, result |-> Return(Hands)]

\* hands.process(img_rgb) in video mode: a hand is found by detection
\* (min_detection_confidence) or, once one is tracked, by tracking
\* (min_tracking_confidence); the instance keeps whether a hand is tracked
HandsProcess(hands, image) ==
    LET found == image = "hand" \/ (image = "faint" /\ hands.tracking) IN
    [hands |-> [hands EXCEPT !.tracking = found],
     multi_hand_landmarks |-> IF found THEN <<"hand_landmarks">> ELSE <<>>]

\* a handler that starts a new tracker when a message fails
websocket_message_ResetOnError(hands, message) ==
    IF message.kind = "bad_json"
    THEN [hands |-> Hands, result |-> Raise(JSONDecodeError(Msg("Expecting value")))]
    ELSE IF message.kind = "not_object"
    THEN [hands |-> Hands, result |-> Raise(AttributeError(Msg("object has no attribute 'get'")))]
    ELSE IF message.kind = "not_image"
    THEN [hands |-> hands,
          result |-> Return([error |-> "Invalid image data", landmarks |-> <<>>, hand_count |-> 0])]
    ELSE LET results == HandsProcess(hands, message.kind)
             landmarks_list == results.multi_hand_landmarks
         IN  [hands |-> results.hands,
              result |-> Return([landmarks |-> landmarks_list,
                                 hand_count |-> Len(landmarks_list),
                                 timestamp |-> message.timestamp])]

\* one turn of the loop of websocket_process_stream on the text received:
\* json.loads, frame_data.get, decoding, hands.process, and the JSON to send;
\* an exception leaves the loop
websocket_message(hands, message) ==
    IF message.kind = "bad_json"
    THEN [hands |-> hands, result |-> Raise(JSONDecodeError(Msg("Expecting value")))]
    ELSE IF message.kind = "not_object"
    THEN [hands |-> hands, result |-> Raise(AttributeError(Msg("object has no attribute 'get'")))]
    ELSE IF message.kind = "not_image"
    THEN [hands |-> hands,
          result |-> Return([error |-> "Invalid image data", landmarks |-> <<>>, hand_count |-> 0])]
    ELSE LET results == HandsProcess(hands, message.kind)
             landmarks_list == results.multi_hand_landmarks
         IN  [hands |-> results.hands,
              result |-> Return([landmarks |-> landmarks_list,
                                 hand_count |-> Len(landmarks_list),
                                 timestamp |-> message.timestamp])]

\* a connection: the messages of the client in the order they arrived, how
\* many of them the handler has received, the await on send_json or close the
\* handler is in, what it has sent, and how it ended: returned ("closed") or
\* by an exception ("raised"), with the code of the close it sent (1011), the
\* code of the close it received (1000), or 0 when it ended on a failed send
NewConnection ==
    [state |-> "none", arrived |-> <<>>, taken |-> 0, pending |-> None, sent |-> <<>>,
     client_closed |-> FALSE, close_code |-> 0]

\* the handler is inside "await websocket.send_json(body)" for message frame
Sending(frame, body) == [await |-> "send_json", frame |-> frame, body |-> body]

\* the handler is inside "await websocket.close(code=1011, ...)"
Closing == [await |-> "close", code |-> 1011]

\* HandLandmarkResponse(landmarks=landmarks_list, ...): the field is
\* List[List[float]] and landmarks_list holds, for each hand, a list of
\* [x, y, z] lists, so the model validates only when no hand was found
HandLandmarkResponse(landmarks_list) ==
    IF Len(landmarks_list) = 0
    THEN Return([landmarks |-> landmarks_list, hand_count |-> Len(landmarks_list)])
    ELSE Raise([type |-> "ValidationError",
                msg |-> Msg("validation errors for HandLandmarkResponse")])

\* POST /process-frame on an image, in the order of the handler: decoding,
\* the 400 of an undecodable image, get_mediapipe_hands, hands.process, the
\* response model; every exception, the two HTTPExceptions and the
\* ValidationError of the response model included, is re-raised as a 500, and
\* the tracker keeps what hands.process made of it
process_frame(instance, errors, image) ==
    IF image = "not_image"
    THEN [instance |-> instance,
          result |-> Raise(HTTPException(500, Msg("Processing error: 400: Invalid image data")))]
    ELSE LET got == get_mediapipe_hands(instance, errors) IN
         IF got.result.raised
         THEN [instance |-> got.instance,
               result |-> Raise(HTTPException(500, Msg("Processing error: 503: MediaPipe not installed")))]
         ELSE LET results == HandsProcess(got.instance, image)
                  landmarks_list == results.multi_hand_landmarks
                  response == HandLandmarkResponse(landmarks_list)
              IN  [instance |-> results.hands,
                   result |-> IF response.raised
                              THEN Raise(HTTPException(500,
                                      Msg("Processing error: validation errors for HandLandmarkResponse")))
                              ELSE response]

\* receiving the newest message and dropping the ones before it
receive_text_Latest(connection) == Len(connection.arrived)

\* await websocket.receive_text(): the next message in arrival order, by its
\* position
receive_text(connection) == connection.taken + 1

(******************************* backend/main.py ***************************)

Exception(msg) == [type |-> "Exception", msg |-> msg]
ImportError(msg) == [type |-> "ImportError", msg |-> msg]

\* the environment variables database/supabase.py reads
Environs ==
    [SUPABASE_URL : {"", "placeholder", "https://project.supabase.co"},
     SUPABASE_KEY : {"", "key"},
     DATABASE_URL : {"", "postgresql://db"}]

\* a deployment with both URLs set
ConfiguredEnviron ==
    [SUPABASE_URL |-> "https://project.supabase.co", SUPABASE_KEY |-> "key",
     DATABASE_URL |-> "postgresql://db"]

\* the modules whose import can fail in a deployment
Importable == {"database.models", "database.supabase"}

Client == [tag |-> "Client"]
sessionmaker == [tag |-> "sessionmaker"]

\* the globals of database/supabase.py after its import; client_ok and
\* engine_ok say whether create_client and create_engine return
database_supabase(env, client_ok, engine_ok) ==
    [supabase |->
        IF env.SUPABASE_URL # "" /\ env.SUPABASE_KEY # ""
           /\ env.SUPABASE_URL # "placeholder" /\ client_ok
        THEN Client ELSE None,
     SessionLocal |->
        IF env.DATABASE_URL # "" /\ engine_ok THEN sessionmaker ELSE None]

\* "from routes import lessons, progress": lessons.py imports
\* database.models, then database.supabase; the modules loaded by it
import_routes(errors) ==
    IF "database.models" \in errors
    THEN [modules |-> {}, result |-> Raise(ImportError(Msg("database.models")))]
    ELSE IF "database.supabase" \in errors
    THEN [modules |-> {"database.models"},
          result |-> Raise(ImportError(Msg("database.supabase")))]
    ELSE [modules |-> {"database.models", "database.supabase",
                       "routes.lessons", "routes.progress"},
          result |-> Return(None)]

\* what FastAPI answers for a handler: the HTTPException's status, 500 for any
\* other exception, the route's status code with the returned body
AppResponse(res, status_code) ==
    IF ~res.raised THEN [status_code |-> status_code, body |-> res.value]
    ELSE IF res.exc.type = "HTTPException"
    THEN [status_code |-> res.exc.status_code, detail |-> res.exc.detail]
    ELSE [status_code |-> 500, detail |-> Msg("Internal Server Error")]

\* a path no included router serves
NotFound == [status_code |-> 404, detail |-> Msg("Not Found")]

\* GET /
main_root ==
    Return([message |-> "ASL Learning API", status |-> "healthy", version |-> "1.0.0"])

\* GET /health, after its import of database.supabase
health_check(supabase_, SessionLocal_, routes_available_) ==
    LET db_status == IF SessionLocal_ # None THEN "connected" ELSE "not_configured"
        supabase_status == IF supabase_ # None THEN "connected" ELSE "not_configured"
    IN  Return([status |-> "healthy", database |-> db_status,
                supabase |-> supabase_status, routes_available |-> routes_available_])

(****************************** routes/lessons.py **************************)

RECURSIVE Filter(_, _)
\* the rows of a table with the category
Filter(rows, category) ==
    IF rows = <<>> THEN <<>>
    ELSE IF Head(rows).category = category
    THEN <<Head(rows)>> \o Filter(Tail(rows), category)
    ELSE Filter(Tail(rows), category)

Min(a, b) == IF a < b THEN a ELSE b

\* query.range(first, last): the rows at offsets first..last
Range(rows, first, last) == SubSeq(rows, first + 1, Min(last + 1, Len(rows)))

\* GET /api/lessons/; category "" is no filter, execute_ok says whether
\* Supabase answers the query
get_lessons(supabase_, table, skip, limit, category, execute_ok) ==
    IF supabase_ = None
    THEN Raise(HTTPException(503, Msg("Database not configured")))
    ELSE IF ~execute_ok THEN Raise(Exception(Msg("query failed")))
    ELSE LET query == IF category # "" THEN Filter(table, category) ELSE table
         IN  Return(Range(query, skip, skip + limit - 1))

\* POST /api/lessons/: the insert of the lesson, whose id the table assigns;
\* execute_ok says whether Supabase answers the insert
create_lesson(supabase_, table, lesson, execute_ok) ==
    IF supabase_ = None
    THEN [table |-> table, result |-> Raise(HTTPException(503, Msg("Database not configured")))]
    ELSE IF ~execute_ok
    THEN [table |-> table, result |-> Raise(Exception(Msg("insert failed")))]
    ELSE LET row == [category |-> lesson.category, id |-> Len(table) + 1]
         IN  [table |-> Append(table, row), result |-> Return(row)]

(****************************** routes/progress.py *************************)

Users == {"u1", "u2"}

\* SQL NULL in an integer column
SqlNull == -1

\* get_db, the dependency of the progress routes
get_db(SessionLocal_) ==
    IF SessionLocal_ = None THEN Raise(Exception(Msg("Database not configured")))
    ELSE Return(SessionLocal_)

\* the column value of PracticeSessionCreate.is_correct
IsCorrectColumn(is_correct) ==
    IF is_correct = "true" THEN 1 ELSE IF is_correct = "false" THEN 0 ELSE SqlNull

\* POST /api/progress/session: the table after the commit and the row
record_practice_session(SessionLocal_, database, user_id, is_correct, commit_ok) ==
    IF get_db(SessionLocal_).raised
    THEN [db |-> database, result |-> get_db(SessionLocal_)]
    ELSE IF ~commit_ok
    THEN [db |-> database, result |-> Raise(Exception(Msg("commit failed")))]
    ELSE LET db_session == [id |-> Len(database.practice_sessions) + 1,
                            user_id |-> user_id,
                            is_correct |-> IsCorrectColumn(is_correct)]
         IN  [db |-> [database EXCEPT !.practice_sessions = Append(@, db_session)],
              result |-> Return(db_session)]

\* COUNT(id) ... WHERE user_id = :user_id
CountRows(rows, user_id) ==
    Cardinality({i \in DOMAIN rows : rows[i].user_id = user_id})

\* a count of the rows whose is_correct is not 0
CountCorrect_NotZero(rows, user_id) ==
    Cardinality({i \in DOMAIN rows : rows[i].user_id = user_id /\ rows[i].is_correct # 0})

\* COUNT(id) ... WHERE user_id = :user_id AND is_correct = 1
CountCorrect(rows, user_id) ==
    Cardinality({i \in DOMAIN rows : rows[i].user_id = user_id /\ rows[i].is_correct = 1})

RECURSIVE SumAccuracy(_, _)
\* the sum behind AVG(accuracy) ... WHERE user_id = :user_id
SumAccuracy(rows, user_id) ==
    IF rows = <<>> THEN 0
    ELSE (IF Head(rows).user_id = user_id THEN Head(rows).accuracy ELSE 0)
         + SumAccuracy(Tail(rows), user_id)

\* a float as a fraction
Ratio(num, den) == [num |-> num, den |-> den]

\* GET /api/progress/stats/{user_id}; execute_ok says whether the database
\* answers the query
get_user_stats(SessionLocal_, database, user_id, execute_ok) ==
    IF get_db(SessionLocal_).raised THEN get_db(SessionLocal_)
    ELSE IF ~execute_ok THEN Raise(Exception(Msg("query failed")))
    ELSE LET total_attempts == CountRows(database.practice_sessions, user_id)
             correct_attempts == CountCorrect(database.practice_sessions, user_id)
             lessons_practiced == CountRows(database.user_progress, user_id)
             avg_accuracy ==
                IF lessons_practiced > 0
                THEN Ratio(SumAccuracy(database.user_progress, user_id), lessons_practiced)
                ELSE Ratio(0, 1)
         IN  Return([user_id |-> user_id,
                     total_attempts |-> total_attempts,
                     correct_attempts |-> correct_attempts,
                     accuracy_rate |->
                        IF total_attempts > 0
                        THEN Ratio(correct_attempts * 100, total_attempts)
                        ELSE Ratio(0, 1),
                     avg_lesson_accuracy |-> avg_accuracy,
                     lessons_practiced |-> lessons_practiced])

\* the clients that call POST /api/progress
Clients == {"k1", "k2"}

\* a client with no call sent
Idle == [pc |-> "idle", calls |-> 0]

NoRequests == [k \in Clients |-> Idle]

\* bodies of POST /api/progress: UserProgressCreate
ProgressRequests ==
    {[user_id |-> pair[1], lesson_id |-> pair[2], attempts |-> a, accuracy |-> 40 * a,
      status |-> st] :
        pair \in {<<"u1", 1>>, <<"u1", 2>>, <<"u2", 1>>}, a \in {1, 2},
        st \in {"", "mastered"}}

\* a query that finds no row
progress_query_NoneFound(database, progress) == 0

\* db.query(UserProgress).filter(user_id ==, lesson_id ==).first(): the id of
\* the first such row, 0 for None
progress_query(database, progress) ==
    LET rows == database.user_progress
        found == {i \in DOMAIN rows : /\ rows[i].user_id = progress.user_id
                                      /\ rows[i].lesson_id = progress.lesson_id}
    IN  IF found = {} THEN 0
        ELSE rows[CHOOSE i \in found : \A j \in found : i <= j].id

\* the rest of create_or_update_progress after the query answered `existing`:
\* the update of that row, or the insert of a new one, and the commit
progress_commit(database, progress, existing) ==
    LET rows == database.user_progress
        now == database.now + 1
    IN  IF existing # 0
        THEN LET i == CHOOSE i \in DOMAIN rows : rows[i].id = existing
                 row == [rows[i] EXCEPT !.attempts = progress.attempts,
                                        !.accuracy = progress.accuracy,
                                        !.status = IF progress.status # ""
                                                   THEN progress.status ELSE @,
                                        !.last_practiced = now]
             IN  [db |-> [database EXCEPT !.user_progress[i] = row, !.now = now],
                  result |-> Return(row)]
        ELSE LET db_progress == [id |-> Len(rows) + 1,
                                 user_id |-> progress.user_id,
                                 lesson_id |-> progress.lesson_id,
                                 attempts |-> progress.attempts,
                                 accuracy |-> progress.accuracy,
                                 status |-> progress.status,
                                 last_practiced |-> now,
                                 created_at |-> now]
             IN  [db |-> [database EXCEPT !.user_progress = Append(@, db_progress),
                                          !.now = now],
                  result |-> Return(db_progress)]

\* POST /api/progress: the handler has no await between its query and its
\* commit and refresh, and runs whole on the event loop of the one server
\* process that main.py starts
create_or_update_progress(SessionLocal_, database, progress) ==
    IF get_db(SessionLocal_).raised
    THEN [db |-> database, result |-> get_db(SessionLocal_)]
    ELSE progress_commit(database, progress, progress_query(database, progress))

(****************************** routes/settings.py *************************)

IntegrityError(msg) == [type |-> "IntegrityError", msg |-> msg]

\* a value that is not None; None is Python's None, JSON's null and SQL's NULL
Val(x) == [v |-> x]

\* the fields of UserSettingsBase, which are the settings columns
SettingsFields ==
    {"performance_mode", "video_resolution", "frame_rate", "model_complexity",
     "inference_throttle_ms", "min_confidence", "use_server_processing"}

StringFields == {"performance_mode", "video_resolution"}

\* the defaults of the fields of UserSettingsBase; min_confidence in hundredths
SchemaDefaults ==
    [f \in SettingsFields |->
        IF f = "performance_mode" THEN Val("balanced")
        ELSE IF f = "video_resolution" THEN Val("640x480")
        ELSE IF f = "frame_rate" THEN Val(30)
        ELSE IF f = "model_complexity" THEN Val(0)
        ELSE IF f = "inference_throttle_ms" THEN Val(250)
        ELSE IF f = "min_confidence" THEN Val(80)
        ELSE Val(FALSE)]

\* the defaults of the settings columns of the table (Column(..., default=))
ColumnDefaults == [SchemaDefaults EXCEPT !["use_server_processing"] = Val(0)]

\* the columns of the row get_user_settings creates
DefaultColumns == [SchemaDefaults EXCEPT !["use_server_processing"] = Val(0)]

\* JSON bodies of POST and PUT: the fields they carry, null or a value
SettingsBodies ==
    {<< >>,
     [f \in {"performance_mode"} |-> Val("max_accuracy")],
     [f \in {"performance_mode"} |-> None],
     [f \in {"frame_rate"} |-> Val(15)],
     [f \in {"use_server_processing"} |-> Val(TRUE)],
     [f \in {"performance_mode", "frame_rate", "use_server_processing"} |->
         IF f = "performance_mode" THEN None
         ELSE IF f = "frame_rate" THEN Val(15) ELSE Val(TRUE)]}

\* pydantic's parse of a body as UserSettingsBase: a field the body omits has
\* the default of the schema
ParseSettings(body) ==
    [f \in SettingsFields |-> IF f \in DOMAIN body THEN body[f] ELSE SchemaDefaults[f]]

\* 1 if settings.use_server_processing else 0
Flag(x) == IF x = Val(TRUE) THEN Val(1) ELSE Val(0)

\* x or default
Or(f, x, default) ==
    IF x = None THEN default
    ELSE IF f \in StringFields THEN (IF x.v = "" THEN default ELSE x)
    ELSE IF f = "use_server_processing" THEN (IF x.v THEN x ELSE default)
    ELSE (IF x.v = 0 THEN default ELSE x)

\* db.query(UserSettings).filter(user_id ==).first(): the index of the row, 0
\* for None
settings_query(database, user_id) ==
    LET rows == database.user_settings
        found == {i \in DOMAIN rows : rows[i].user_id = user_id}
    IN  IF found = {} THEN 0 ELSE CHOOSE i \in found : \A j \in found : i <= j

\* db.add, db.commit, db.refresh of a new UserSettings: user_id is unique,
\* and the INSERT leaves out an attribute that is None, so that its column
\* takes the default of the table
insert_settings(database, user_id, columns) ==
    IF settings_query(database, user_id) # 0
    THEN [db |-> database, result |-> Raise(IntegrityError(Msg("user_settings_user_id_key")))]
    ELSE LET now == database.now + 1
             stored == [f \in SettingsFields |->
                           IF columns[f] = None THEN ColumnDefaults[f] ELSE columns[f]]
             row == [id |-> Len(database.user_settings) + 1, user_id |-> user_id,
                     columns |-> stored, updated_at |-> now, created_at |-> now]
         IN  [db |-> [database EXCEPT !.user_settings = Append(@, row), !.now = now],
              result |-> Return(row)]

\* a GET that creates the defaults without looking for a row
get_user_settings_AlwaysCreate(SessionLocal_, database, user_id) ==
    IF get_db(SessionLocal_).raised
    THEN [db |-> database, result |-> get_db(SessionLocal_)]
    ELSE insert_settings(database, user_id, DefaultColumns)

\* GET /api/settings/user/{user_id}
get_user_settings(SessionLocal_, database, user_id) ==
    IF get_db(SessionLocal_).raised
    THEN [db |-> database, result |-> get_db(SessionLocal_)]
    ELSE LET settings == settings_query(database, user_id) IN
         IF settings = 0
         THEN insert_settings(database, user_id, DefaultColumns)
         ELSE [db |-> database, result |-> Return(database.user_settings[settings])]

\* a POST that does not look for an existing row
create_user_settings_NoCheck(SessionLocal_, database, user_id, body) ==
    IF get_db(SessionLocal_).raised
    THEN [db |-> database, result |-> get_db(SessionLocal_)]
    ELSE LET settings == ParseSettings(body) IN
         insert_settings(database, user_id,
                         [settings EXCEPT !["use_server_processing"] = Flag(@)])

\* POST /api/settings
create_user_settings(SessionLocal_, database, user_id, body) ==
    IF get_db(SessionLocal_).raised
    THEN [db |-> database, result |-> get_db(SessionLocal_)]
    ELSE LET settings == ParseSettings(body)
             existing == settings_query(database, user_id)
         IN  IF existing # 0
             THEN [db |-> database,
                   result |-> Raise(HTTPException(400,
                                Msg("Settings already exist. Use PUT to update.")))]
             ELSE insert_settings(database, user_id,
                                  [settings EXCEPT !["use_server_processing"] = Flag(@)])

\* PUT /api/settings/user/{user_id}
update_user_settings(SessionLocal_, database, user_id, body) ==
    IF get_db(SessionLocal_).raised
    THEN [db |-> database, result |-> get_db(SessionLocal_)]
    ELSE LET settings == ParseSettings(body)
             db_settings == settings_query(database, user_id)
         IN  IF db_settings = 0
             THEN insert_settings(database, user_id,
                    [f \in SettingsFields |->
                        IF f = "use_server_processing" THEN Flag(settings[f])
                        ELSE Or(f, settings[f], DefaultColumns[f])])
             ELSE LET now == database.now + 1
                      stored == database.user_settings[db_settings]
                      row == [stored EXCEPT
                                !.columns =
                                   [f \in SettingsFields |->
                                       IF settings[f] = None THEN stored.columns[f]
                                       ELSE IF f = "use_server_processing"
                                       THEN Flag(settings[f])
                                       ELSE settings[f]],
                                !.updated_at = now]
                  IN  [db |-> [database EXCEPT !.user_settings[db_settings] = row,
                                               !.now = now],
                       result |-> Return(row)]

(******************************* the system ********************************)

\* The two deployments are separate processes with separate globals; a run
\* follows one of them.

NoCall == [service |-> "none"]

\* the deployments with a SageMaker endpoint: the container alone, and the
\* Lambda proxy in front of it
Endpoints == {"sagemaker", "lambda_proxy"}

\* the processes that run inference_server.py
LocalServers == {"inference_server", "inference_server_reload"}

\* whether a successful call may be kept for comparison: only where the
\* artifact stays the same for the life of the process
Keep == IF process = "inference_server_reload" THEN {FALSE} ELSE BOOLEAN

\* the stream before any connection
StreamIdle ==
    /\ hands_instance = None
    /\ connections = [c \in Conns |-> NewConnection]

\* the backend API before main.py is imported
BackendIdle ==
    /\ routes_available = FALSE
    /\ supabase = None
    /\ SessionLocal = None
    /\ db = None
    /\ environ = None
    /\ modules = {}
    /\ inflight = NoRequests

Init ==
    /\ process \in {"inference_server", "sagemaker"}
    /\ phase = "starting"
    /\ model = None
    /\ labels = None
    /\ device = None
    /\ numpy_ragged \in IF process = "inference_server" THEN {"raise", "object"} ELSE {"raise"}
    /\ json_nan \in IF process = "inference_server" THEN {"raise", "null"} ELSE {"raise"}
    /\ session = None
    /\ sm_labels = None
    /\ call = NoCall
    /\ pinned = NoCall
    /\ import_errors = {}
    /\ StreamIdle
    /\ BackendIdle

Build == <<process, numpy_ragged, json_nan, import_errors>>
SmVars == <<session, sm_labels>>
LocalVars == <<phase, model, labels, device>>
StreamVars == <<hands_instance, connections>>
BackendVars == <<routes_available, supabase, SessionLocal, db, environ, modules, inflight>>
InferenceVars == <<LocalVars, SmVars, call, pinned>>

\* startup_event with no model file: a warning, and the server serves without a model
StartupNoFile ==
    /\ process \in LocalServers
    /\ phase = "starting"
    /\ phase' = "serving"
    /\ UNCHANGED <<model, labels, device, Build, SmVars, call, pinned, StreamVars, BackendVars>>

\* startup_event with a model file: load_model; an exception ends the startup
StartupLoad ==
    /\ process \in LocalServers
    /\ phase = "starting"
    /\ \E file \in CheckpointFiles, dev \in Devices :
         \E o \in load_model(Globals(model, labels, device, None), file, dev) :
            /\ model' = o.model
            /\ labels' = o.labels
            /\ device' = o.device
            /\ phase' = IF o.raised = None THEN "serving" ELSE "failed"
    /\ UNCHANGED <<Build, SmVars, call, pinned, StreamVars, BackendVars>>

\* the record of a handled request
Call(service, request, response, o) ==
    [service |-> service, request |-> request, response |-> response,
     steps |-> o.steps, flat |-> o.flat, dist |-> o.dist]

\* a handler that only answers
Plain == [steps |-> <<>>, flat |-> None, dist |-> None]

\* a handler that drops the globals when the request fails
Predict_DropsModelOnError ==
    /\ process \in LocalServers
    /\ phase = "serving"
    /\ \E landmarks \in LandmarkSets, keep \in Keep :
         \E o \in predict(model, labels, landmarks, numpy_ragged) :
            /\ call' = Call("predict", [landmarks |-> landmarks], HttpResponse(o.res, json_nan), o)
            /\ pinned' = IF keep /\ call'.response.status_code = 200 THEN call' ELSE pinned
            /\ model' = IF o.res.raised THEN None ELSE model
            /\ labels' = IF o.res.raised THEN None ELSE labels
    /\ UNCHANGED <<phase, device, Build, SmVars, StreamVars, BackendVars>>

\* POST /predict
Predict ==
    /\ process \in LocalServers
    /\ phase = "serving"
    /\ \E landmarks \in LandmarkSets, keep \in Keep :
         \E o \in predict(model, labels, landmarks, numpy_ragged) :
            /\ call' = Call("predict", [landmarks |-> landmarks], HttpResponse(o.res, json_nan), o)
            /\ pinned' = IF keep /\ call'.response.status_code = 200 THEN call' ELSE pinned
    /\ UNCHANGED <<LocalVars, Build, SmVars, StreamVars, BackendVars>>

\* GET /labels
GetLabels ==
    /\ process \in LocalServers
    /\ phase = "serving"
    /\ call' = Call("labels", None, HttpResponse(get_labels(labels), json_nan), Plain)
    /\ UNCHANGED <<LocalVars, Build, SmVars, pinned, StreamVars, BackendVars>>

\* GET /
Root ==
    /\ process \in LocalServers
    /\ phase = "serving"
    /\ call' = Call("root", None, HttpResponse(root(model, labels), json_nan), Plain)
    /\ UNCHANGED <<LocalVars, Build, SmVars, pinned, StreamVars, BackendVars>>

\* model_fn at container start: labels.json, then the ONNX session
ModelFn ==
    /\ process \in Endpoints
    /\ session = None
    /\ \E checkpoint \in GoodCheckpoints, onnx_ok \in BOOLEAN :
         /\ sm_labels' = ExportLabels(checkpoint)
         /\ session' = IF onnx_ok THEN Session(checkpoint) ELSE None
    /\ UNCHANGED <<LocalVars, Build, call, pinned, StreamVars, BackendVars>>

\* an invocation of the SageMaker endpoint
Invoke ==
    /\ process = "sagemaker"
    /\ session # None
    /\ \E request \in SmRequests, keep \in BOOLEAN :
         LET o == Transform(request, session, sm_labels) IN
            /\ call' = Call("sagemaker", request, o.res, o)
            /\ pinned' = IF keep /\ ~o.res.raised THEN call' ELSE pinned
    /\ UNCHANGED <<LocalVars, Build, SmVars, StreamVars, BackendVars>>

\* load_model called again in a serving process: the only loader there is, run
\* on the globals the handlers read.  An exception goes to the caller of
\* load_model and the server keeps serving.
Reload ==
    /\ process = "inference_server_reload"
    /\ phase = "serving"
    /\ \E file \in CheckpointFiles, dev \in Devices :
         \E o \in load_model(Globals(model, labels, device, None), file, dev) :
            /\ model' = o.model
            /\ labels' = o.labels
            /\ device' = o.device
    /\ UNCHANGED <<phase, Build, SmVars, call, pinned, StreamVars, BackendVars>>

Next ==
    \/ StartupNoFile
    \/ StartupLoad
    \/ Predict
    \/ GetLabels
    \/ Root
    \/ ModelFn
    \/ Invoke

Spec == Init /\ [][Next]_vars

\* the inference server with reloads
InitReload ==
    /\ process = "inference_server_reload"
    /\ phase = "starting"
    /\ model = None
    /\ labels = None
    /\ device = None
    /\ numpy_ragged \in {"raise", "object"}
    /\ json_nan \in {"raise", "null"}
    /\ session = None
    /\ sm_labels = None
    /\ call = NoCall
    /\ pinned = NoCall
    /\ import_errors = {}
    /\ StreamIdle
    /\ BackendIdle

NextReload ==
    \/ StartupNoFile
    \/ StartupLoad
    \/ Reload
    \/ Predict
    \/ GetLabels
    \/ Root

SpecReload == InitReload /\ [][NextReload]_vars

(***************************** the Lambda proxy ****************************)

InitLambda ==
    /\ process = "lambda_proxy"
    /\ phase = "starting"
    /\ model = None
    /\ labels = None
    /\ device = None
    /\ numpy_ragged = "raise"
    /\ json_nan = "raise"
    /\ session = None
    /\ sm_labels = None
    /\ call = NoCall
    /\ pinned = NoCall
    /\ import_errors = {}
    /\ StreamIdle
    /\ BackendIdle

\* one invocation of the Lambda function by the API gateway
LambdaHandler ==
    /\ process = "lambda_proxy"
    /\ \E event \in Events :
         LET o == lambda_handler(event, session, sm_labels) IN
         call' = Call("lambda", event, o.response,
                      [steps |-> IF o.invoked THEN <<"invoke_endpoint">> ELSE <<>>,
                       flat |-> None, dist |-> None])
    /\ UNCHANGED <<LocalVars, Build, SmVars, pinned, StreamVars, BackendVars>>

NextLambda ==
    \/ ModelFn
    \/ LambdaHandler

SpecLambda == InitLambda /\ [][NextLambda]_vars

(************************ the two selections side by side ******************)

\* labels a trained class can have
SelectLabels == {"A", "B", "space", "del"}

\* index-to-label mappings of n classes, keyed 0..n-1 as in a checkpoint
Mappings(n) == [0..(n - 1) -> SelectLabels]

\* probability vectors over n classes: numerators over their sum
Vectors(n) ==
    {[num |-> w, den |-> SumTo(w, n - 1)] :
        w \in {v \in [0..(n - 1) -> 0..MaxWeight] : SumTo(v, n - 1) > 0}}

\* the mapping as labels.json holds it: keys str(i)
StrKeyed(idx_to_label) ==
    [key \in {StrOf(i) : i \in DOMAIN idx_to_label} |->
        idx_to_label[CHOOSE i \in DOMAIN idx_to_label : StrOf(i) = key]]

\* a probability vector and a mapping of its classes are given
InitSelect ==
    /\ process = "select"
    /\ phase = "starting"
    /\ model = None
    /\ labels = None
    /\ device = None
    /\ numpy_ragged = "raise"
    /\ json_nan = "raise"
    /\ session = None
    /\ sm_labels = None
    /\ \E n \in 2..MaxClasses :
         \E probabilities \in Vectors(n), idx_to_label \in Mappings(n) :
            call = [service |-> "select_input",
                    request |-> [probabilities |-> probabilities,
                                 idx_to_label |-> idx_to_label]]
    /\ pinned = NoCall
    /\ import_errors = {}
    /\ StreamIdle
    /\ BackendIdle

\* both handlers select on the given vector and mapping
Select ==
    /\ process = "select"
    /\ call.service = "select_input"
    /\ call' = [service |-> "select",
                request |-> call.request,
                local |-> LocalSelect(call.request.probabilities,
                                      [idx_to_label |-> call.request.idx_to_label]),
                sagemaker |-> SmSelect(call.request.probabilities,
                                       [idx_to_label |-> StrKeyed(call.request.idx_to_label)])]
    /\ UNCHANGED <<LocalVars, Build, SmVars, pinned, StreamVars, BackendVars>>

NextSelect == Select

SpecSelect == InitSelect /\ [][NextSelect]_vars

(********************** the hand-tracking stream ***************************)

\* the inference globals of a process that is no inference server
InferenceIdle ==
    /\ phase = "starting"
    /\ model = None
    /\ labels = None
    /\ device = None
    /\ numpy_ragged = "raise"
    /\ json_nan = "raise"
    /\ session = None
    /\ sm_labels = None
    /\ call = NoCall
    /\ pinned = NoCall

InitStream ==
    /\ process = "hand_tracking"
    /\ import_errors \in {{}, {"mediapipe"}}
    /\ InferenceIdle
    /\ StreamIdle
    /\ BackendIdle

RECURSIVE Arrived(_)
\* the messages that have arrived on the connections of the set S
Arrived(S) ==
    IF S = {} THEN 0
    ELSE LET c == CHOOSE c \in S : TRUE IN Len(connections[c].arrived) + Arrived(S \ {c})

\* a client opens the WebSocket: "await websocket.accept()", at which the
\* handler returns to the event loop with the connection accepted
Connect ==
    /\ process = "hand_tracking"
    /\ \E c \in Conns :
         /\ connections[c].state = "none"
         /\ connections' = [connections EXCEPT ![c].state = "accepted"]
    /\ UNCHANGED <<Build, InferenceVars, BackendVars, hands_instance>>

\* the handler goes on after accept: get_mediapipe_hands, outside the try.
\* Its exception leaves the handler uncaught: the handler has ended and has
\* closed nothing
GetHands ==
    /\ process = "hand_tracking"
    /\ \E c \in Conns :
         /\ connections[c].state = "accepted"
         /\ LET got == get_mediapipe_hands(hands_instance, import_errors) IN
               /\ hands_instance' = got.instance
               /\ connections' =
                     [connections EXCEPT
                        ![c].state = IF got.result.raised THEN "raised" ELSE "open"]
    /\ UNCHANGED <<Build, InferenceVars, BackendVars>>

\* a client sends a text message; it waits in the connection until the
\* handler receives it
ClientSend ==
    /\ process = "hand_tracking"
    /\ Arrived(Conns) < MaxFrames
    /\ \E c \in Conns, kind \in MessageKinds :
         /\ connections[c].state \in {"accepted", "open"}
         /\ ~connections[c].client_closed
         /\ connections' =
               [connections EXCEPT
                  ![c].arrived = Append(@, [kind |-> kind,
                                            timestamp |-> Len(connections[c].arrived) + 1])]
    /\ UNCHANGED <<Build, InferenceVars, BackendVars, hands_instance>>

\* a client closes its end
ClientClose ==
    /\ process = "hand_tracking"
    /\ \E c \in Conns :
         /\ connections[c].state \in {"accepted", "open"}
         /\ ~connections[c].client_closed
         /\ connections' = [connections EXCEPT ![c].client_closed = TRUE]
    /\ UNCHANGED <<Build, InferenceVars, BackendVars, hands_instance>>

\* one turn of the handler's loop from the return of receive_text to the next
\* await: the processing of the message, up to the entry into send_json or,
\* on an exception, into close(code=1011)
HandleMessage ==
    /\ process = "hand_tracking"
    /\ \E c \in Conns :
         /\ connections[c].state = "open"
         /\ connections[c].pending = None
         /\ connections[c].taken < Len(connections[c].arrived)
         /\ LET i == receive_text(connections[c])
                out == websocket_message(hands_instance, connections[c].arrived[i])
            IN  /\ hands_instance' = out.hands
                /\ connections' =
                      [connections EXCEPT
                         ![c].taken = i,
                         ![c].pending = IF out.result.raised THEN Closing
                                        ELSE Sending(i, out.result.value)]
    /\ UNCHANGED <<Build, InferenceVars, BackendVars>>

\* "await websocket.send_json(...)" ends. It returns, the response is out and
\* the handler is back at receive_text; or, the client having gone, it raises
\* WebSocketDisconnect, which the handler catches: it prints and returns,
\* nothing was sent, the message stays unanswered and no close is sent.
\* Whether a send to a client that has gone raises depends on the server
\* library and on what of the closing it has seen, so both outcomes exist then
SendJson ==
    /\ process = "hand_tracking"
    /\ \E c \in Conns :
         /\ connections[c].state = "open"
         /\ connections[c].pending # None
         /\ connections[c].pending.await = "send_json"
         /\ \/ connections' =
                  [connections EXCEPT
                     ![c].sent = Append(@, [frame |-> connections[c].pending.frame,
                                            body |-> connections[c].pending.body]),
                     ![c].pending = None]
            \/ /\ connections[c].client_closed
               /\ connections' =
                     [connections EXCEPT ![c].state = "closed", ![c].pending = None]
    /\ UNCHANGED <<Build, InferenceVars, BackendVars, hands_instance>>

\* "await websocket.close(code=1011, ...)" ends. It returns and the handler
\* has ended with the close sent; or, the client having gone, it raises
\* WebSocketDisconnect out of the except block: the handler ends by raising
\* and no close is sent
CloseOnError ==
    /\ process = "hand_tracking"
    /\ \E c \in Conns :
         /\ connections[c].state = "open"
         /\ connections[c].pending # None
         /\ connections[c].pending.await = "close"
         /\ \/ connections' =
                  [connections EXCEPT
                     ![c].state = "closed",
                     ![c].close_code = connections[c].pending.code,
                     ![c].pending = None]
            \/ /\ connections[c].client_closed
               /\ connections' =
                     [connections EXCEPT ![c].state = "raised", ![c].pending = None]
    /\ UNCHANGED <<Build, InferenceVars, BackendVars, hands_instance>>

\* receive_text raises WebSocketDisconnect once the client has closed and its
\* messages are used up: the handler ends
HandleDisconnect ==
    /\ process = "hand_tracking"
    /\ \E c \in Conns :
         /\ connections[c].state = "open"
         /\ connections[c].pending = None
         /\ connections[c].client_closed
         /\ connections[c].taken = Len(connections[c].arrived)
         /\ connections' = [connections EXCEPT ![c].state = "closed", ![c].close_code = 1000]
    /\ UNCHANGED <<Build, InferenceVars, BackendVars, hands_instance>>

\* POST /process-frame: the handler has no await and runs whole, on the
\* instance the streams share
ProcessFrame ==
    /\ process = "hand_tracking"
    /\ \E image \in FrameImages :
         LET o == process_frame(hands_instance, import_errors, image) IN
         /\ hands_instance' = o.instance
         /\ call' = Call("process_frame", [image_data |-> image],
                         AppResponse(o.result, 200), Plain)
    /\ UNCHANGED <<Build, LocalVars, SmVars, pinned, BackendVars, connections>>

NextStream ==
    \/ Connect
    \/ GetHands
    \/ ClientSend
    \/ ClientClose
    \/ HandleMessage
    \/ SendJson
    \/ CloseOnError
    \/ HandleDisconnect
    \/ ProcessFrame

SpecStream == InitStream /\ [][NextStream]_vars

(***************************** the backend API *****************************)

\* the rows of public.lessons in the deployment
LessonsTable ==
    <<[id |-> 1, category |-> "alphabet"],
      [id |-> 2, category |-> "numbers"],
      [id |-> 3, category |-> "alphabet"]>>

\* the database before any request: the lessons, no row of the users, and the
\* clock behind func.now() at 0
EmptyDb ==
    [lessons |-> LessonsTable, practice_sessions |-> <<>>, user_progress |-> <<>>,
     user_settings |-> <<>>, now |-> 0]

\* the backend with any environment, and the backend with its database
Backends == {"backend", "backend_crud", "backend_settings", "backend_progress"}

InitBackend ==
    /\ process = "backend"
    /\ import_errors \in SUBSET Importable
    /\ InferenceIdle
    /\ StreamIdle
    /\ routes_available = FALSE
    /\ supabase = None
    /\ SessionLocal = None
    /\ db = EmptyDb
    /\ inflight = NoRequests
    /\ environ \in Environs
    /\ modules = {}

\* what a backend request leaves alone besides the backend's own globals
BackendFrame == <<Build, LocalVars, SmVars, pinned, StreamVars, environ, inflight>>

\* the import of main.py: the routes, and with them database/supabase.py
ImportMain ==
    /\ process \in Backends
    /\ "main" \notin modules
    /\ \E client_ok \in BOOLEAN, engine_ok \in BOOLEAN :
         LET routes == import_routes(import_errors)
             loaded == "database.supabase" \in routes.modules
             globals == database_supabase(environ, client_ok, engine_ok)
         IN  /\ routes_available' = ~routes.result.raised
             /\ modules' = {"main"} \cup routes.modules
             /\ supabase' = IF loaded THEN globals.supabase ELSE None
             /\ SessionLocal' = IF loaded THEN globals.SessionLocal ELSE None
    /\ UNCHANGED <<BackendFrame, call, db>>

GetRoot ==
    /\ process = "backend"
    /\ "main" \in modules
    /\ call' = Call("main_root", None, AppResponse(main_root, 200), Plain)
    /\ UNCHANGED <<BackendFrame, routes_available, supabase, SessionLocal, db, modules>>

\* GET /health: the handler imports database.supabase itself, which runs the
\* module if no import of it has succeeded
GetHealth ==
    /\ process = "backend"
    /\ "main" \in modules
    /\ IF "database.supabase" \in modules
       THEN /\ call' = Call("health", None,
                            AppResponse(health_check(supabase, SessionLocal,
                                                     routes_available), 200), Plain)
            /\ UNCHANGED <<supabase, SessionLocal, modules>>
       ELSE IF "database.supabase" \in import_errors
       THEN /\ call' = Call("health", None,
                            AppResponse(Raise(ImportError(Msg("database.supabase"))), 200),
                            Plain)
            /\ UNCHANGED <<supabase, SessionLocal, modules>>
       ELSE \E client_ok \in BOOLEAN, engine_ok \in BOOLEAN :
              LET globals == database_supabase(environ, client_ok, engine_ok) IN
              /\ supabase' = globals.supabase
              /\ SessionLocal' = globals.SessionLocal
              /\ modules' = modules \cup {"database.supabase"}
              /\ call' = Call("health", None,
                              AppResponse(health_check(globals.supabase, globals.SessionLocal,
                                                       routes_available), 200), Plain)
    /\ UNCHANGED <<BackendFrame, routes_available, db>>

GetLessons ==
    /\ process = "backend"
    /\ "main" \in modules
    /\ \E skip \in {0, 1}, limit \in {1, 100}, category \in {"", "alphabet"},
          execute_ok \in BOOLEAN :
         call' = Call("lessons", [skip |-> skip, limit |-> limit, category |-> category],
                      IF routes_available
                      THEN AppResponse(get_lessons(supabase, db.lessons, skip, limit,
                                                   category, execute_ok), 200)
                      ELSE NotFound, Plain)
    /\ UNCHANGED <<BackendFrame, routes_available, supabase, SessionLocal, db, modules>>

CreateLesson ==
    /\ process = "backend"
    /\ "main" \in modules
    /\ Len(db.lessons) < Len(LessonsTable) + MaxLessons
    /\ \E category \in {"alphabet", "numbers"}, execute_ok \in BOOLEAN :
         LET o == create_lesson(supabase, db.lessons, [category |-> category], execute_ok) IN
         IF routes_available
         THEN /\ db' = [db EXCEPT !.lessons = o.table]
              /\ call' = Call("create_lesson", [category |-> category],
                              AppResponse(o.result, 201), Plain)
         ELSE /\ db' = db
              /\ call' = Call("create_lesson", [category |-> category], NotFound, Plain)
    /\ UNCHANGED <<BackendFrame, routes_available, supabase, SessionLocal, modules>>

GetStats ==
    /\ process \in Backends
    /\ "main" \in modules
    /\ \E user_id \in Users, execute_ok \in BOOLEAN :
         call' = Call("stats", [user_id |-> user_id],
                      IF routes_available
                      THEN AppResponse(get_user_stats(SessionLocal, db, user_id, execute_ok), 200)
                      ELSE NotFound, Plain)
    /\ UNCHANGED <<BackendFrame, routes_available, supabase, SessionLocal, db, modules>>

RecordSession ==
    /\ process \in Backends
    /\ "main" \in modules
    /\ Len(db.practice_sessions) < MaxSessions
    /\ \E user_id \in Users, is_correct \in {"true", "false", "null"}, commit_ok \in BOOLEAN :
         LET o == record_practice_session(SessionLocal, db, user_id, is_correct, commit_ok)
             request == [user_id |-> user_id, is_correct |-> is_correct]
         IN  IF routes_available
             THEN /\ db' = o.db
                  /\ call' = Call("session", request, AppResponse(o.result, 201), Plain)
             ELSE /\ db' = db
                  /\ call' = Call("session", request, NotFound, Plain)
    /\ UNCHANGED <<BackendFrame, routes_available, supabase, SessionLocal, modules>>

NextBackend ==
    \/ ImportMain
    \/ GetRoot
    \/ GetHealth
    \/ GetLessons
    \/ CreateLesson
    \/ GetStats
    \/ RecordSession

SpecBackend == InitBackend /\ [][NextBackend]_vars

(************************ the progress of the users ************************)

InitProgress ==
    /\ process = "backend_progress"
    /\ import_errors = {}
    /\ InferenceIdle
    /\ StreamIdle
    /\ routes_available = FALSE
    /\ supabase = None
    /\ SessionLocal = None
    /\ db = EmptyDb
    /\ environ = ConfiguredEnviron
    /\ modules = {}
    /\ inflight = NoRequests

RECURSIVE Sent(_)
\* the calls the clients of the set S have sent
Sent(S) ==
    IF S = {} THEN 0
    ELSE LET k == CHOOSE k \in S : TRUE IN inflight[k].calls + Sent(S \ {k})

\* POST /api/progress calls sent so far
Posts == Sent(Clients)

\* a client sends POST /api/progress: the call waits for the event loop, which
\* may hold the call of another client at the same time; sent_at is the clock
\* of the database when the call was sent
PostProgress ==
    /\ process = "backend_progress"
    /\ "main" \in modules
    /\ Posts < MaxPosts
    /\ \E k \in Clients, progress \in ProgressRequests :
         /\ inflight[k].pc # "waiting"
         /\ inflight' = [inflight EXCEPT ![k] = [pc |-> "waiting", progress |-> progress,
                                                 sent_at |-> db.now,
                                                 calls |-> inflight[k].calls + 1]]
    /\ UNCHANGED <<Build, LocalVars, SmVars, pinned, StreamVars, environ, call,
                   routes_available, supabase, SessionLocal, db, modules>>

\* the event loop runs create_or_update_progress for one waiting call, whole
HandleProgress ==
    /\ process = "backend_progress"
    /\ \E k \in Clients :
         /\ inflight[k].pc = "waiting"
         /\ LET o == create_or_update_progress(SessionLocal, db, inflight[k].progress)
                response == IF routes_available THEN AppResponse(o.result, 201) ELSE NotFound
            IN  /\ db' = IF routes_available THEN o.db ELSE db
                /\ call' = Call("progress", inflight[k].progress, response, Plain)
                /\ inflight' = [inflight EXCEPT ![k] = [@ EXCEPT !.pc = "answered"]]
    /\ UNCHANGED <<Build, LocalVars, SmVars, pinned, StreamVars, environ,
                   routes_available, supabase, SessionLocal, modules>>

NextProgress ==
    \/ ImportMain
    \/ PostProgress
    \/ HandleProgress

SpecProgress == InitProgress /\ [][NextProgress]_vars

(************************** the settings of the users **********************)

InitSettings ==
    /\ process = "backend_settings"
    /\ import_errors = {}
    /\ InferenceIdle
    /\ StreamIdle
    /\ routes_available = FALSE
    /\ supabase = None
    /\ SessionLocal = None
    /\ db = EmptyDb
    /\ environ = ConfiguredEnviron
    /\ modules = {}
    /\ inflight = NoRequests

\* "from routes import settings" succeeded (main.py:28-33): settings.py imports
\* database.models and database.supabase
settings_router(errors) == errors \cap Importable = {}

GetSettings ==
    /\ process = "backend_settings"
    /\ "main" \in modules
    /\ \E user_id \in Users :
         LET o == get_user_settings(SessionLocal, db, user_id) IN
         IF settings_router(import_errors)
         THEN /\ db' = o.db
              /\ call' = Call("get_settings", [user_id |-> user_id],
                              AppResponse(o.result, 200), Plain)
         ELSE /\ db' = db
              /\ call' = Call("get_settings", [user_id |-> user_id], NotFound, Plain)
    /\ UNCHANGED <<BackendFrame, routes_available, supabase, SessionLocal, modules>>

PostSettings ==
    /\ process = "backend_settings"
    /\ "main" \in modules
    /\ \E user_id \in Users, body \in SettingsBodies :
         LET o == create_user_settings(SessionLocal, db, user_id, body)
             request == [user_id |-> user_id, body |-> body]
         IN  /\ o.db.now <= MaxWrites
             /\ IF settings_router(import_errors)
                 THEN /\ db' = o.db
                      /\ call' = Call("post_settings", request, AppResponse(o.result, 201), Plain)
                 ELSE /\ db' = db
                      /\ call' = Call("post_settings", request, NotFound, Plain)
    /\ UNCHANGED <<BackendFrame, routes_available, supabase, SessionLocal, modules>>

PutSettings ==
    /\ process = "backend_settings"
    /\ "main" \in modules
    /\ \E user_id \in Users, body \in SettingsBodies :
         LET o == update_user_settings(SessionLocal, db, user_id, body)
             request == [user_id |-> user_id, body |-> body]
         IN  /\ o.db.now <= MaxWrites
             /\ IF settings_router(import_errors)
                 THEN /\ db' = o.db
                      /\ call' = Call("put_settings", request, AppResponse(o.result, 200), Plain)
                 ELSE /\ db' = db
                      /\ call' = Call("put_settings", request, NotFound, Plain)
    /\ UNCHANGED <<BackendFrame, routes_available, supabase, SessionLocal, modules>>

NextSettings ==
    \/ ImportMain
    \/ GetSettings
    \/ PostSettings
    \/ PutSettings

SpecSettings == InitSettings /\ [][NextSettings]_vars

(************************ the backend with its database ********************)

InitCrud ==
    /\ process = "backend_crud"
    /\ import_errors = {}
    /\ InferenceIdle
    /\ StreamIdle
    /\ routes_available = FALSE
    /\ supabase = None
    /\ SessionLocal = None
    /\ db = EmptyDb
    /\ inflight = NoRequests
    /\ environ = ConfiguredEnviron
    /\ modules = {}

NextCrud ==
    \/ ImportMain
    \/ RecordSession
    \/ GetStats

SpecCrud == InitCrud /\ [][NextCrud]_vars

(***************************************************************************)
(* Properties                                                              *)
(***************************************************************************)

\* the 26 uppercase letters, as the interface names them
Letters ==
    {"A", "B", "C", "D", "E", "F", "G", "H", "I", "J", "K", "L", "M",
     "N", "O", "P", "Q", "R", "S", "T", "U", "V", "W", "X", "Y", "Z"}

\* the last call went through an inference pipeline
IsInference == call.service \in {"predict", "sagemaker"}

\* the last call carried a landmark list
HasLandmarks ==
    \/ call.service = "predict"
    \/ /\ call.service = "sagemaker"
       /\ \/ call.request.data.type = "list"
          \/ /\ call.request.data.type = "dict"
             /\ "landmarks" \in call.request.data.keys
             /\ "landmarks" \in DOMAIN call.request.data

CallLandmarks ==
    IF call.service = "predict" THEN call.request.landmarks
    ELSE IF call.request.data.type = "list" THEN call.request.data.items
    ELSE call.request.data.landmarks

\* the last call was answered with a prediction
Succeeded ==
    \/ call.service = "predict" /\ call.response.status_code = 200
    \/ call.service = "sagemaker" /\ ~call.response.raised

Prediction ==
    IF call.service = "predict" THEN call.response.body ELSE call.response.value.body

\* the label of each class index in the artifact the serving process loaded
ClassLabels ==
    IF call.service = "predict" THEN labels.idx_to_label
    ELSE [i \in 0..(Len0(sm_labels.idx_to_label) - 1) |-> sm_labels.idx_to_label[StrOf(i)]]

LetterClasses == {i \in DOMAIN ClassLabels : ClassLabels[i] \in Letters}

Took(step) == \E i \in DOMAIN call.steps : call.steps[i] = step

IsPrefix(s, t) == Len(s) <= Len(t) /\ \A i \in 1..Len(s) : s[i] = t[i]

Pipeline == <<"check_count", "flatten", "check_features", "score", "select", "format">>

WellFormed21(lm) == Len0(lm) = NumLandmarks /\ \A i \in DOMAIN lm : Len0(lm[i]) = NumCoords

\* C1: a predict request whose landmark count is not 21, with a model loaded,
\* is answered 400 with a message naming 21 and the actual count
C1_WrongCountIs400 ==
    (call.service = "predict" /\ model # None
        /\ Len0(call.request.landmarks) # NumLandmarks)
    => /\ call.response.status_code = 400
       /\ call.response.detail = MsgLandmarks(Len0(call.request.landmarks))

\* C2: with a model loaded, 21 points of which one has not 3 coordinates are
\* answered 400 and never 500, and 21 well-formed triples pass validation
C2_BadPointIs400 ==
    (call.service = "predict" /\ model # None
        /\ Len0(call.request.landmarks) = NumLandmarks)
    => IF WellFormed21(call.request.landmarks)
       THEN Took("score")
       ELSE call.response.status_code = 400

\* C3: while no model is loaded, every /predict and /labels request is
\* answered 503 and nothing is scored
C3_NoModelIs503 ==
    (call.service \in {"predict", "labels"} /\ model = None)
    => /\ call.response.status_code = 503
       /\ ~Took("score")
       /\ call.dist = None

C3_Witness ==
    /\ model = None
    /\ call.service = "predict"
    /\ WellFormed21(call.request.landmarks)
    /\ call.response.status_code = 503

\* C4: the steps of a request run in the order validate, flatten, score,
\* select, format, and the model is reached only by a request that passed the
\* 21-point check and the 63-feature check
C4_ValidateBeforeScore ==
    IsInference
    => /\ IsPrefix(call.steps, Pipeline)
       /\ Took("score") => /\ HasLandmarks
                           /\ WellFormed21(CallLandmarks)
                           /\ ~call.flat.raised
                           /\ Len0(call.flat.value) = NumFeatures

\* a request that reached the model was answered, and then a malformed one was
\* turned away before the model
C4_Witness ==
    /\ pinned.service = "predict"
    /\ \E i \in DOMAIN pinned.steps : pinned.steps[i] = "score"
    /\ call.service = "predict"
    /\ Len0(call.request.landmarks) = NumLandmarks
    /\ ~WellFormed21(call.request.landmarks)
    /\ ~Took("score")

\* C5: flattening a valid 21x3 landmark set L yields 63 features F with
\* F[3*i+k] = L[i][k], and flattening the same L again yields the same F
C5_FlattenRowMajor ==
    /\ (IsInference /\ Took("flatten") /\ WellFormed21(CallLandmarks))
       => /\ ~call.flat.raised
          /\ DOMAIN call.flat.value = 0..(NumFeatures - 1)
          /\ \A i \in 0..(NumLandmarks - 1), k \in 0..(NumCoords - 1) :
                call.flat.value[NumCoords * i + k] = CallLandmarks[i][k]
    /\ (IsInference /\ Took("flatten") /\ pinned.service = call.service
            /\ pinned.request = call.request)
       => pinned.flat = call.flat

C5_Witness ==
    /\ IsInference
    /\ Took("flatten")
    /\ WellFormed21(CallLandmarks)
    /\ CallLandmarks[1][0] # CallLandmarks[0][1]
    /\ pinned.service = call.service
    /\ pinned.request = call.request

\* the softmax of the last call produced numbers, not NaN
FiniteScores == call.dist # None /\ call.dist.den > 0

\* the artifact in use has a letter class and the last call returned a prediction
LetterPrediction == IsInference /\ Succeeded /\ LetterClasses # {}

\* C6: with a letter label in the artifact and finite scores, the sign is the
\* letter label of maximum probability among the letter classes, whatever the
\* non-letter classes score, and the confidence is that class's probability in
\* the full softmax
C6_BestLetter ==
    (LetterPrediction /\ FiniteScores)
    => \E i \in LetterClasses :
          /\ Prediction.sign = ClassLabels[i]
          /\ \A j \in LetterClasses : call.dist.num[j] <= call.dist.num[i]
          /\ Prediction.confidence = [num |-> call.dist.num[i], den |-> call.dist.den]
          /\ call.dist.den = SumTo(call.dist.num, Len0(call.dist.num) - 1)

\* a non-letter class holds the highest probability of all, and a letter is returned
C6_Witness ==
    /\ LetterPrediction
    /\ FiniteScores
    /\ \E c \in DOMAIN ClassLabels \ LetterClasses :
          \A j \in LetterClasses : call.dist.num[j] < call.dist.num[c]
    /\ Prediction.sign \in Letters

\* C7: the keys of the probabilities map are exactly the labels of the
\* artifact that are single letters A-Z, each mapped, when the scores are
\* finite, to its class's probability in the full distribution
C7_MapKeysAreLetters ==
    (IsInference /\ Succeeded)
    => /\ DOMAIN Prediction.probabilities = {ClassLabels[i] : i \in LetterClasses}
       /\ FiniteScores
              => \A i \in LetterClasses :
                    Prediction.probabilities[ClassLabels[i]] =
                        [num |-> call.dist.num[i], den |-> call.dist.den]

\* labels that are not letters sit beside letters, one of them on top
C7_Witness ==
    /\ IsInference
    /\ Succeeded
    /\ FiniteScores
    /\ LetterClasses # {}
    /\ \E c \in DOMAIN ClassLabels \ LetterClasses :
          /\ \A j \in DOMAIN ClassLabels : call.dist.num[j] <= call.dist.num[c]
          /\ ClassLabels[c] \notin DOMAIN Prediction.probabilities

\* the letter classes that hold the maximum probability among letters
TopLetters ==
    {i \in LetterClasses : \A j \in LetterClasses : call.dist.num[j] <= call.dist.num[i]}

\* C8: when letter classes share the maximum, the one of lowest class index
\* is selected, on every call
C8_TieLowestIndex ==
    /\ LetterPrediction
       => \E i \in TopLetters :
             /\ \A j \in TopLetters : i <= j
             /\ Prediction.sign = ClassLabels[i]
    /\ (LetterPrediction /\ pinned.service = call.service /\ pinned.request = call.request)
       => pinned.response = call.response

\* two letter classes tie for the maximum, and the same request was answered before
C8_Witness ==
    /\ LetterPrediction
    /\ Cardinality(TopLetters) >= 2
    /\ pinned.service = call.service
    /\ pinned.request = call.request

\* the caller accepts the JSON response (a local request always does)
JsonAccepted == call.service = "sagemaker" => call.request.accept = "application/json"

\* C9: with no A-Z label in the artifact a valid request with finite scores
\* does not fail: the sign is the label of the arg-max over all classes, the
\* confidence is its probability, and the probabilities map is empty
C9_NoLetterFallback ==
    (IsInference /\ Took("select") /\ LetterClasses = {} /\ JsonAccepted /\ FiniteScores)
    => /\ Succeeded
       /\ \E i \in DOMAIN ClassLabels :
             /\ \A j \in DOMAIN ClassLabels : call.dist.num[j] <= call.dist.num[i]
             /\ \A j \in DOMAIN ClassLabels : j < i => call.dist.num[j] < call.dist.num[i]
             /\ Prediction.sign = ClassLabels[i]
             /\ Prediction.confidence = [num |-> call.dist.num[i], den |-> call.dist.den]
       /\ DOMAIN Prediction.probabilities = {}

C9_Witness ==
    /\ IsInference
    /\ Took("select")
    /\ LetterClasses = {}
    /\ Succeeded
    /\ Prediction.sign \notin Letters

\* C10: two calls with the same request on the same loaded model return the
\* same sign, confidence and probabilities, whatever was handled between them
C10_SameRequestSameResult ==
    (IsInference /\ pinned.service = call.service /\ pinned.request = call.request)
    => /\ Succeeded
       /\ pinned.response = call.response

C10_Witness ==
    /\ call.service = "predict"
    /\ pinned.service = "predict"
    /\ pinned.request = call.request
    /\ Succeeded
    /\ model.model_type = "lstm"

\* the globals hold one artifact in full: the model load_model builds from a
\* checkpoint, weights loaded and in eval mode, with that checkpoint's labels
Complete(m, lb) ==
    \E file \in CheckpointFiles, dev \in Devices :
       \E g \in load_model(Globals(None, None, None, None), file, dev) :
          g.raised = None /\ g.model = m /\ g.labels = lb

\* C11: a prediction made by a server whose model is loaded again uses the
\* weights and the labels of one artifact: it never runs on a model whose
\* weights are not loaded, nor on a model with another artifact's labels
C11_ReloadAtomic ==
    [][(call' # call /\ call'.service = "predict" /\ model # None)
        => Complete(model, labels)]_vars

\* a step in which a predict request is answered with an error
PredictFailed ==
    /\ call' # call
    /\ call'.service = "predict"
    /\ call'.response.status_code # 200

\* C12: a predict request that ends in an error (400, 503 or 500) leaves the
\* globals model, labels and device as they were, the server serving, and an
\* earlier successful request, sent again, is answered as it was
C12_ErrorLeavesGlobals ==
    [][PredictFailed
        => /\ model' = model
           /\ labels' = labels
           /\ device' = device
           /\ phase' = phase
           /\ pinned.service = "predict"
              => \E o \in predict(model', labels', pinned.request.landmarks, numpy_ragged') :
                    HttpResponse(o.res, json_nan') = pinned.response]_vars

\* a request has been answered, and a later one failed inside the handler
C12_Witness ==
    /\ pinned.service = "predict"
    /\ call.service = "predict"
    /\ call.response.status_code = 500
    /\ model # None

\* the last call is a request of 21 well-formed numeric triples, sent as JSON
\* to a process that has a model with a letter among its labels
ValidRequestOnLetterModel ==
    /\ \/ call.service = "predict" /\ model # None /\ labels # None
       \/ /\ call.service = "sagemaker"
          /\ call.request.content_type = "application/json"
          /\ call.request.accept = "application/json"
    /\ HasLandmarks
    /\ WellFormed21(CallLandmarks)
    /\ LetterClasses # {}

\* C13: with a model whose labels include a letter, every request of 21
\* well-formed numeric triples is answered with a prediction whose sign is one
\* of A-Z and whose confidence lies in [0,1]
C13_ValidRequestSucceeds ==
    ValidRequestOnLetterModel
    => /\ Succeeded
       /\ Prediction.sign \in Letters
       /\ Prediction.confidence.den > 0
       /\ 0 <= Prediction.confidence.num
       /\ Prediction.confidence.num <= Prediction.confidence.den

\* the same for requests whose coordinates are all within the float32 range
C13_InRangeRequestSucceeds ==
    (ValidRequestOnLetterModel
        /\ \A i \in DOMAIN CallLandmarks : \A k \in DOMAIN CallLandmarks[i] :
              IsFinite(Float32(CallLandmarks[i][k])))
    => /\ Succeeded
       /\ Prediction.sign \in Letters
       /\ Prediction.confidence.den > 0
       /\ 0 <= Prediction.confidence.num
       /\ Prediction.confidence.num <= Prediction.confidence.den

\* the sum of the numerators of the map's values over the keys `keys`
RECURSIVE MapSum(_, _)
MapSum(map, keys) ==
    IF keys = {} THEN 0
    ELSE LET l == CHOOSE l \in keys : TRUE IN map[l].num + MapSum(map, keys \ {l})

\* the softmax of the last call is a distribution: values in [0,1] that sum to 1
IsDistribution ==
    /\ call.dist # None
    /\ call.dist.den > 0
    /\ \A i \in DOMAIN call.dist.num : 0 <= call.dist.num[i] /\ call.dist.num[i] <= call.dist.den
    /\ SumTo(call.dist.num, Len0(call.dist.num) - 1) = call.dist.den

\* C16: for a distribution produced by the softmax, every value of the
\* probabilities map lies in [0,1], the values sum to at most 1, and they sum
\* to 1 exactly when every class of non-zero probability is a letter class
C16_MapSumAtMostOne ==
    (IsInference /\ Succeeded /\ IsDistribution)
    => LET map == Prediction.probabilities
           total == MapSum(map, DOMAIN map)
       IN  /\ \A l \in DOMAIN map :
                /\ map[l].den = call.dist.den
                /\ 0 <= map[l].num
                /\ map[l].num <= map[l].den
           /\ total <= call.dist.den
           /\ (total = call.dist.den)
              <=> \A i \in DOMAIN call.dist.num :
                     call.dist.num[i] > 0 => i \in LetterClasses

\* a non-letter class is there with probability 0, and the map sums to 1
C16_Witness ==
    /\ IsInference
    /\ Succeeded
    /\ IsDistribution
    /\ \E c \in DOMAIN ClassLabels \ LetterClasses : call.dist.num[c] = 0
    /\ MapSum(Prediction.probabilities, DOMAIN Prediction.probabilities) = call.dist.den

\* isinstance(e, ValueError)
IsValueError(e) == e.type \in {"ValueError", "JSONDecodeError"}

\* C20: input_fn returns the landmark list of a JSON body that is an object
\* with a "landmarks" key or a bare array, the same list for both, when it has
\* 21 entries; for every other body or content type it raises a ValueError
C20_InputFnShapes ==
    call.service = "sagemaker"
    => LET content_type == call.request.content_type
           parsed == input_fn(call.request.data, content_type)
       IN  /\ ~parsed.raised
              <=> /\ content_type = "application/json"
                  /\ HasLandmarks
                  /\ Len0(CallLandmarks) = NumLandmarks
           /\ ~parsed.raised
              => /\ parsed.value = CallLandmarks
                 /\ input_fn(JDict(CallLandmarks), content_type) = parsed
                 /\ input_fn(JList(CallLandmarks), content_type) = parsed
           /\ parsed.raised
              => /\ call.response = parsed
                 /\ call.steps = <<"check_count">>
                 /\ IsValueError(parsed.exc)

\* the response the handler owes to a message that does not end the loop
IsInvalidImage(body) == "error" \in DOMAIN body

\* the n-th response of a connection answers its n-th message
Answers(connection, n) ==
    LET response == connection.sent[n]
        message == connection.arrived[n]
    IN  /\ response.frame = n
        /\ IsInvalidImage(response.body) <=> message.kind = "not_image"
        /\ ~IsInvalidImage(response.body) => response.body.timestamp = message.timestamp

\* C14: on one connection the n-th response sent (landmarks or invalid-image
\* error) answers the n-th message received, none skipped, duplicated or
\* reordered; the one message received and not yet answered is the last one
\* received, and either its response is on its way out, or the send failed on
\* a client that has gone and ended the handler, or its exception ends the
\* handler (close with 1011, delivered unless the client has gone) and it
\* gets no response
C14_ResponsesInOrder ==
    process = "hand_tracking"
    => \A c \in Conns :
         LET connection == connections[c] IN
         /\ Len(connection.sent) <= connection.taken
         /\ connection.taken <= Len(connection.arrived)
         /\ \A n \in 1..Len(connection.sent) : Answers(connection, n)
         /\ connection.taken # Len(connection.sent)
            => /\ connection.taken = Len(connection.sent) + 1
               /\ \/ /\ connection.state = "open"
                     /\ connection.pending # None
                     /\ connection.pending.await = "send_json"
                     /\ Answers([connection EXCEPT
                                   !.sent = Append(@, [frame |-> connection.pending.frame,
                                                       body |-> connection.pending.body])],
                                connection.taken)
                  \/ /\ connection.arrived[connection.taken].kind
                            \notin {"bad_json", "not_object"}
                     /\ connection.state = "closed"
                     /\ connection.close_code = 0
                     /\ connection.client_closed
                  \/ /\ connection.arrived[connection.taken].kind \in {"bad_json", "not_object"}
                     /\ \/ connection.state = "closed" /\ connection.close_code = 1011
                        \/ connection.state = "raised" /\ connection.client_closed
                        \/ connection.state = "open" /\ connection.pending = Closing

\* a connection has answered both of its messages, an invalid image among
\* them, and its handler is back at receive_text
C14_Witness ==
    \E c \in Conns :
       LET connection == connections[c] IN
       /\ Len(connection.arrived) = 2
       /\ connection.taken = 2
       /\ Len(connection.sent) = 2
       /\ connection.pending = None
       /\ IsInvalidImage(connection.sent[1].body) # IsInvalidImage(connection.sent[2].body)

\* this step is a disconnect, a malformed message or an error on connection c
FailureOn(c) ==
    LET before == connections[c]
        after == connections'[c]
    IN  \/ before.state \notin {"closed", "raised"} /\ after.state \in {"closed", "raised"}
        \/ ~before.client_closed /\ after.client_closed
        \/ before.pending = None /\ after.pending = Closing
        \/ /\ before.pending = None
           /\ after.pending # None
           /\ after.pending.await = "send_json"
           /\ IsInvalidImage(after.pending.body)
        \/ /\ Len(after.sent) = Len(before.sent) + 1
           /\ IsInvalidImage(after.sent[Len(after.sent)].body)

\* C15: a disconnect, a malformed message or a processing error on one
\* connection leaves every other connection (its state and the responses sent on
\* it) and the shared MediaPipe instance as they were
C15_FailureIsLocal ==
    [][\A c \in Conns :
          FailureOn(c)
          => /\ hands_instance' = hands_instance
             /\ \A d \in Conns \ {c} : connections'[d] = connections[d]]_vars

\* one connection was closed by a raising message while the other is open with
\* a response sent and the shared instance is tracking a hand
C15_Witness ==
    /\ hands_instance # None
    /\ hands_instance.tracking
    /\ \E c \in Conns, d \in Conns :
         /\ c # d
         /\ connections[c].state = "closed"
         /\ connections[c].close_code = 1011
         /\ connections[c].taken = Len(connections[c].sent) + 1
         /\ connections[d].state = "open"
         /\ Len(connections[d].sent) >= 1

\* C17: GET / and GET /health answer 200 with status "healthy" whether or not
\* the database, Supabase and the routers are there, and /health reports
\* database and supabase "connected" exactly when the session factory and the
\* client exist, otherwise "not_configured"
C17_HealthAlways200 ==
    call.service \in {"main_root", "health"}
    => /\ call.response.status_code = 200
       /\ call.response.body.status = "healthy"
       /\ call.service = "health"
          => /\ call.response.body.database
                = (IF SessionLocal # None THEN "connected" ELSE "not_configured")
             /\ call.response.body.supabase
                = (IF supabase # None THEN "connected" ELSE "not_configured")

\* C18: GET /api/lessons/ is answered with 200 or 500 in every configuration
C18_LessonsStatus ==
    call.service = "lessons" => call.response.status_code \in {200, 500}

\* C19: GET /api/progress/stats/{user_id} is answered with 200 or 500 for any
\* user id in every configuration
C19_StatsStatus ==
    call.service = "stats" => call.response.status_code \in {200, 500}

\* the Lambda proxy called the endpoint while handling the request
Forwarded == call.steps = <<"invoke_endpoint">>

\* the request body is a JSON object with the key "landmarks"
HasLandmarksField ==
    /\ call.request.body.kind = "object"
    /\ "landmarks" \in call.request.body.keys

\* the landmarks field is missing or empty
NoLandmarks ==
    \/ call.request.body.kind = "absent"
    \/ call.request.body.kind = "object" /\ ~HasLandmarksField
    \/ /\ HasLandmarksField
       /\ LET v == call.request.body.landmarks IN
          \/ v.type = "null"
          \/ v.type = "list" /\ Len0(v.items) = 0
          \/ v.type = "string" /\ v.len = 0

\* the landmarks field is a list of n entries
ListOf(n) ==
    /\ HasLandmarksField
    /\ call.request.body.landmarks.type = "list"
    /\ Len0(call.request.body.landmarks.items) = n

\* the landmarks field is a string of n characters
StringOf(n) ==
    /\ HasLandmarksField
    /\ call.request.body.landmarks.type = "string"
    /\ call.request.body.landmarks.len = n

\* what the proxy answers, whatever it forwards: the CORS header on every
\* response, 200 for OPTIONS, 400 for missing, empty or miscounted landmarks,
\* 500 for an exception
ProxyAnswers ==
    LET event == call.request
        response == call.response
    IN  /\ response.headers["Access-Control-Allow-Origin"] = "*"
        /\ event.httpMethod = "OPTIONS"
           => ~Forwarded /\ response.statusCode = 200 /\ response.headers = CorsHeaders
        /\ event.httpMethod # "OPTIONS"
           => /\ NoLandmarks
                 => /\ response.statusCode = 400
                    /\ response.body.error = Msg("Missing landmarks in request body")
              /\ \A n \in Counts \ {0, NumLandmarks} :
                    ListOf(n) => /\ response.statusCode = 400
                                 /\ response.body.error.expected = NumLandmarks
                                 /\ response.body.error.got = n
              /\ event.body.kind \in {"none", "invalid", "array"}
                 => ~Forwarded /\ response.statusCode = 500
              /\ Forwarded
                 => /\ response.statusCode \in {200, 500}
                    /\ response.statusCode = 500 <=> "cause" \in DOMAIN response.body
                    /\ response.statusCode = 500 => response.body.cause.type = "ClientError"
              /\ response.statusCode = 200 => Forwarded

\* C21: the Lambda proxy invokes the endpoint only for a non-OPTIONS request
\* whose landmarks field is a non-empty list of exactly 21 entries; OPTIONS
\* gets 200 with the CORS headers, missing or empty landmarks 400, a wrong
\* count 400 naming both counts, any exception 500, and every response
\* carries Access-Control-Allow-Origin "*"
C21_ForwardsOnlyLists ==
    call.service = "lambda"
    => /\ ProxyAnswers
       /\ Forwarded <=> call.request.httpMethod # "OPTIONS" /\ ListOf(NumLandmarks)

\* C21 as the code has it: the proxy checks the length of the landmarks value
\* and not its type, so it forwards a list of 21 entries and also a string of
\* 21 characters (which the endpoint rejects, giving 500); the answers are as
\* stated
C21_ForwardsLength21 ==
    call.service = "lambda"
    => /\ ProxyAnswers
       /\ Forwarded
          <=> /\ call.request.httpMethod # "OPTIONS"
              /\ ListOf(NumLandmarks) \/ StringOf(NumLandmarks)
       /\ StringOf(NumLandmarks) /\ Forwarded => call.response.statusCode = 500

\* a POST with 21 landmarks was forwarded and answered 200 with a prediction
C21_Witness ==
    /\ call.service = "lambda"
    /\ call.request.httpMethod = "POST"
    /\ ListOf(NumLandmarks)
    /\ Forwarded
    /\ call.response.statusCode = 200
    /\ call.response.body.sign \in Letters

\* C22: on the same probability vector and the same index-to-label mapping the
\* local server and the SageMaker handler select the same sign, the same
\* confidence and the same probabilities map, with letters present, tied or
\* absent
C22_SameSelection ==
    call.service = "select"
    => /\ ~call.local.raised
       /\ ~call.sagemaker.raised
       /\ call.local.value.sign = call.sagemaker.value.sign
       /\ call.local.value.confidence = call.sagemaker.value.confidence
       /\ call.local.value.probabilities = call.sagemaker.value.probabilities

\* the selections were made where no class is a letter and the two largest
\* probabilities are tied, so both fell back to the arg-max
C22_Witness ==
    /\ call.service = "select"
    /\ \A i \in DOMAIN call.request.idx_to_label :
          call.request.idx_to_label[i] \notin Letters
    /\ \E i, j \in DOMAIN call.request.probabilities.num :
          /\ i < j
          /\ call.request.probabilities.num[i] = call.request.probabilities.num[j]
          /\ call.request.probabilities.num[i] = Max0(call.request.probabilities.num)
    /\ call.sagemaker.value.sign = "space"
    /\ call.local.value.probabilities = << >>

\* C23: after startup and load_model, a load that failed part-way included,
\* the global model is set exactly when the global labels are, and then both
\* are one checkpoint's; so /labels is unavailable exactly when /predict is,
\* and GET / reports model_loaded only for a model that can predict
C23_ModelIffLabels ==
    process \in LocalServers
    => /\ model # None <=> labels # None
       /\ model # None => Complete(model, labels)
       /\ get_labels(labels).raised <=> model = None
       /\ root(model, labels).value.model_loaded => Complete(model, labels)

\* the stats the database answers for a user
StatsOf(user_id) == get_user_stats(SessionLocal, db, user_id, TRUE).value

\* this step recorded a practice session of user_id
Recorded(user_id) ==
    /\ call' # call
    /\ call'.service = "session"
    /\ call'.response.status_code = 201
    /\ call'.request.user_id = user_id

\* C28: the stats of a user count that user's recorded sessions in
\* total_attempts and those recorded with is_correct true in correct_attempts
\* (false and unknown are not counted), 0 <= correct_attempts <=
\* total_attempts, accuracy_rate is correct / total * 100 or 0 without
\* attempts, and a session of another user changes none of it
C28_StatsCountSessions ==
    [][(process = "backend_crud" /\ SessionLocal # None)
       => \A u \in Users :
            LET before == StatsOf(u)
                after == StatsOf(u)'
                one == IF Recorded(u) THEN 1 ELSE 0
                right == IF Recorded(u) /\ call'.request.is_correct = "true" THEN 1 ELSE 0
            IN  /\ after.total_attempts = before.total_attempts + one
                /\ after.correct_attempts = before.correct_attempts + right
                /\ 0 <= after.correct_attempts
                /\ after.correct_attempts <= after.total_attempts
                /\ after.accuracy_rate =
                      (IF after.total_attempts > 0
                       THEN Ratio(after.correct_attempts * 100, after.total_attempts)
                       ELSE Ratio(0, 1))
                /\ (call'.service = "stats" /\ call'.response.status_code = 200
                    /\ call'.request.user_id = u)
                   => /\ call'.response.body.total_attempts = after.total_attempts
                      /\ call'.response.body.correct_attempts = after.correct_attempts
                      /\ call'.response.body.accuracy_rate = after.accuracy_rate]_vars

\* the stats of a user were read after two sessions of that user, one correct
\* and one unknown, and a session of another user
C28_Witness ==
    /\ process = "backend_crud"
    /\ call.service = "stats"
    /\ call.response.status_code = 200
    /\ call.response.body.total_attempts = 2
    /\ call.response.body.correct_attempts = 1
    /\ Len(db.practice_sessions) = 3
    /\ \E i \in DOMAIN db.practice_sessions :
          /\ db.practice_sessions[i].user_id = call.request.user_id
          /\ db.practice_sessions[i].is_correct = SqlNull

\* the user_progress rows of a (user_id, lesson_id) pair in a database
ProgressOf(database, user_id, lesson_id) ==
    {i \in DOMAIN database.user_progress :
        /\ database.user_progress[i].user_id = user_id
        /\ database.user_progress[i].lesson_id = lesson_id}

\* C24: with the database configured, after every step of any sequence of
\* POST /api/progress calls, calls that wait at the same time included, there
\* is at most one user_progress row per (user_id, lesson_id); a call for a
\* pair with a row replaces attempts and accuracy of that row, and its status
\* only when the status of the request is non-empty, and adds no row; a call
\* for a new pair adds exactly one row with the values of the request
C24_OneRowPerPair ==
    [][(process = "backend_progress" /\ SessionLocal # None)
       => /\ \A u \in Users, l \in 1..2 : Cardinality(ProgressOf(db', u, l)) <= 1
          /\ (call'.service = "progress" /\ db' # db)
             => LET progress == call'.request
                    had == ProgressOf(db, progress.user_id, progress.lesson_id)
                IN  /\ call'.response.status_code = 201
                    /\ IF had = {}
                       THEN /\ Len(db'.user_progress) = Len(db.user_progress) + 1
                            /\ SubSeq(db'.user_progress, 1, Len(db.user_progress))
                                  = db.user_progress
                            /\ LET row == db'.user_progress[Len(db'.user_progress)] IN
                               /\ row.user_id = progress.user_id
                               /\ row.lesson_id = progress.lesson_id
                               /\ row.attempts = progress.attempts
                               /\ row.accuracy = progress.accuracy
                               /\ row.status = progress.status
                               /\ call'.response.body = row
                       ELSE /\ Len(db'.user_progress) = Len(db.user_progress)
                            /\ \A i \in DOMAIN db.user_progress :
                                 LET old == db.user_progress[i]
                                     row == db'.user_progress[i]
                                 IN  IF i \in had
                                     THEN /\ row.id = old.id
                                          /\ row.user_id = old.user_id
                                          /\ row.lesson_id = old.lesson_id
                                          /\ row.created_at = old.created_at
                                          /\ row.attempts = progress.attempts
                                          /\ row.accuracy = progress.accuracy
                                          /\ row.status = (IF progress.status # ""
                                                           THEN progress.status
                                                           ELSE old.status)
                                          /\ call'.response.body = row
                                     ELSE row = old]_vars

\* two calls for the same new pair were both sent before either was handled,
\* and both are answered: the pair has one row, created by one call and
\* updated by the other, which left the status alone
C24_Witness ==
    /\ process = "backend_progress"
    /\ \A k \in Clients :
         /\ inflight[k].pc = "answered"
         /\ inflight[k].sent_at = 0
         /\ inflight[k].progress.user_id = "u1"
         /\ inflight[k].progress.lesson_id = 1
    /\ Len(db.user_progress) = 1
    /\ db.user_progress[1].created_at = 1
    /\ db.user_progress[1].last_practiced = 2
    /\ db.user_progress[1].status = "mastered"
    /\ call.request.status = ""
    /\ call.response.status_code = 201
    /\ call.response.body = db.user_progress[1]

(************************** properties of the settings *********************)

\* the settings rows of user_id in a database
SettingsOf(database, user_id) ==
    {i \in DOMAIN database.user_settings : database.user_settings[i].user_id = user_id}

\* this step answered a call of the settings route named service
Answered(service) ==
    /\ call'.service = service
    /\ (call' # call \/ db' # db)

\* the rows that were stored before this step are stored after it
RowsKept == SubSeq(db'.user_settings, 1, Len(db.user_settings)) = db.user_settings

\* C25: with the database configured, a GET of the settings of a user with no
\* row appends exactly one row of that user holding balanced, 640x480, 30, 0,
\* 250, 0.8 and server processing off, and answers 200 with it; a GET for a
\* user with a row answers 200 with that row and leaves the database as it
\* was; and after every step of GET, POST and PUT there is at most one
\* settings row per user_id.
C25_GetCreatesDefaultsOnce ==
    [][(process = "backend_settings" /\ SessionLocal # None)
       => /\ \A u \in Users : Cardinality(SettingsOf(db', u)) <= 1
          /\ Answered("get_settings")
             => LET u == call'.request.user_id
                    had == SettingsOf(db, u)
                    has == SettingsOf(db', u)
                IN  /\ call'.response.status_code = 200
                    /\ IF had = {}
                       THEN /\ Len(db'.user_settings) = Len(db.user_settings) + 1
                            /\ RowsKept
                            /\ has = {Len(db'.user_settings)}
                            /\ \A i \in has :
                                 LET row == db'.user_settings[i] IN
                                 /\ row.columns["performance_mode"] = Val("balanced")
                                 /\ row.columns["video_resolution"] = Val("640x480")
                                 /\ row.columns["frame_rate"] = Val(30)
                                 /\ row.columns["model_complexity"] = Val(0)
                                 /\ row.columns["inference_throttle_ms"] = Val(250)
                                 /\ row.columns["min_confidence"] = Val(80)
                                 /\ row.columns["use_server_processing"] = Val(0)
                                 /\ call'.response.body = row
                       ELSE /\ db' = db
                            /\ \A i \in had : call'.response.body = db.user_settings[i]]_vars

\* a GET created the default row of a user beside the row of another user that
\* holds other values
C25_Witness ==
    /\ process = "backend_settings"
    /\ call.service = "get_settings"
    /\ call.response.status_code = 200
    /\ Len(db.user_settings) = 2
    /\ call.response.body = db.user_settings[2]
    /\ db.user_settings[2].user_id = call.request.user_id
    /\ db.user_settings[2].columns = DefaultColumns
    /\ db.user_settings[1].user_id # call.request.user_id
    /\ db.user_settings[1].columns["frame_rate"] = Val(15)

\* this step answered a POST of settings for a user that had no row
StoredByPost ==
    /\ process = "backend_settings"
    /\ SessionLocal # None
    /\ Answered("post_settings")
    /\ SettingsOf(db, call'.request.user_id) = {}

\* the column in which a supplied value is stored as it is: the flag
\* use_server_processing is the integer 1 for true and 0 for false
SuppliedColumn(x, f) ==
    IF f = "use_server_processing" /\ x # None
    THEN (IF x = Val(TRUE) THEN Val(1) ELSE Val(0))
    ELSE x

\* C26 as stated: a POST of settings for a user_id with no row stores every
\* field of the body as supplied, a null as NULL
C26_StoresSupplied ==
    [][StoredByPost
       => LET body == call'.request.body
              row == db'.user_settings[Len(db'.user_settings)]
          IN  \A f \in DOMAIN body : row.columns[f] = SuppliedColumn(body[f], f)]_vars

\* C26: with the database configured, a POST of settings for a user_id that
\* has a row answers 400 and leaves the database as it was; for a user_id with
\* no row it answers 201 and appends one row of that user_id in which every
\* field the body supplies with a value other than null holds that value (the
\* flag use_server_processing as 1 for true and 0 for false) and every field
\* supplied as null holds the default of its column, and the response is that
\* row
C26_PostRejectsExistingRow ==
    [][(process = "backend_settings" /\ SessionLocal # None /\ Answered("post_settings"))
       => LET u == call'.request.user_id
              body == call'.request.body
          IN  IF SettingsOf(db, u) # {}
              THEN /\ call'.response.status_code = 400
                   /\ db' = db
              ELSE /\ call'.response.status_code = 201
                   /\ Len(db'.user_settings) = Len(db.user_settings) + 1
                   /\ RowsKept
                   /\ LET row == db'.user_settings[Len(db'.user_settings)] IN
                      /\ row.user_id = u
                      /\ call'.response.body = row
                      /\ \A f \in DOMAIN body :
                           IF body[f] = None
                           THEN row.columns[f] = ColumnDefaults[f]
                           ELSE row.columns[f] = SuppliedColumn(body[f], f)]_vars

\* a POST was answered 400 for a user whose row was created and then updated
\* by a PUT, and the row is the one the PUT left
C26_Witness ==
    /\ process = "backend_settings"
    /\ call.service = "post_settings"
    /\ call.response.status_code = 400
    /\ "frame_rate" \in DOMAIN call.request.body
    /\ \E i \in SettingsOf(db, call.request.user_id) :
         /\ db.user_settings[i].updated_at > db.user_settings[i].created_at
         /\ db.user_settings[i].columns["frame_rate"] = Val(30)
         /\ db.user_settings[i].columns["performance_mode"] = Val("max_accuracy")

\* C27: a PUT of settings for a user with a row leaves every field that the
\* body omits or sets to null at its stored value, and leaves id, user_id and
\* created_at of the row as they were.
C27_PutChangesOnlySupplied ==
    [][(process = "backend_settings" /\ SessionLocal # None /\ Answered("put_settings"))
       => LET u == call'.request.user_id
              body == call'.request.body
          IN  \A i \in SettingsOf(db, u) :
                LET stored == db.user_settings[i]
                    row == db'.user_settings[i]
                IN  /\ row.id = stored.id
                    /\ row.user_id = stored.user_id
                    /\ row.created_at = stored.created_at
                    /\ \A f \in SettingsFields :
                         (f \notin DOMAIN body \/ body[f] = None)
                            => row.columns[f] = stored.columns[f]]_vars

====
